---------------------------- MODULE Spec2Model ----------------------------
(***************************************************************************)
(* Model of the vocabulary grouping pipeline of vocab_grouping.py:         *)
(* proportional allocation, level stratification, small sub-level merging, *)
(* seeded partition into groups, and the build_groups orchestration.       *)
(*                                                                         *)
(* A VocabEntry is represented by reference: an entry is its source_index, *)
(* and its immutable fields are looked up in the loaded entry table.       *)
(* Python lists are 0-based; the sequences here are 1-based, so a Python   *)
(* index i is position i + 1.                                              *)
(***************************************************************************)
EXTENDS Integers, Sequences, FiniteSets, TLC

VARIABLES
    call,      \* the pending call of a function under test: its name and arguments
    ret,       \* its return value, NotReturned before the call has run
    csv,       \* the rows of the vocabulary file
    seeds,     \* the seed of each successive build_groups call
    run,       \* number of the build_groups call under way (or next to start)
    pc,        \* where that call stands: "idle", "pos_loop", "merged_loop", or the exception that ended it
    rng,       \* build_groups: state of the stream rng
    entries,   \* build_groups: the loaded VocabEntry table, in row order
    by_pos,    \* build_groups: the dict by_pos, in insertion order
    pos_i,     \* build_groups: 1-based position of the loop over by_pos.items()
    merged,    \* build_groups: the merged sub-levels of the current part of speech
    merged_i,  \* build_groups: 1-based position of the loop over merged
    groups,    \* build_groups: the list groups
    results    \* the lists returned by the build_groups calls so far

callVars == <<call, ret>>
buildVars == <<csv, seeds, run, pc, rng, entries, by_pos, pos_i, merged, merged_i,
               groups, results>>
vars == <<call, ret, csv, seeds, run, pc, rng, entries, by_pos, pos_i, merged, merged_i,
          groups, results>>

(***************************************************************************)
(* Bounds of the model.                                                    *)
(***************************************************************************)
MaxTotal == 12        \* allocate_by_ratio: totals 0..MaxTotal (and the scenario total)
MaxWeight == 4        \* allocate_by_ratio: each weight in 1..MaxWeight
MaxWeights == 3       \* allocate_by_ratio: 1..MaxWeights weights

(***************************************************************************)
(* Program constants.                                                      *)
(***************************************************************************)
MantissaBits == 53    \* significand width of a Python float (IEEE 754 double)
LEVEL_WEIGHTS == <<55, 65, 120>>
ScenarioTotal == 100  \* allocate(100, [55, 65, 120]) of the allocator's documented example

MIN_WORDS == 20       \* a sub-level or word list below 20 words is small
MAX_WORDS == 30       \* up to 30 words stay one group
TWO_GROUPS_MAX == 39  \* 31..39 words are split into two groups
TARGET == 25          \* target = 25, the size a group of a large list aims at

NotReturned == [returned |-> FALSE]
NoCall == [fn |-> "none"]

\* no build_groups call exists in the specifications of a single function
NoBuild ==
    /\ csv = <<>> /\ seeds = <<>> /\ run = 1 /\ pc = "idle" /\ rng = 0
    /\ entries = <<>> /\ by_pos = <<>> /\ pos_i = 1 /\ merged = <<>> /\ merged_i = 1
    /\ groups = <<>> /\ results = <<>>

(***************************************************************************)
(* Generic helpers.                                                        *)
(***************************************************************************)
RECURSIVE SumSeq(_)
SumSeq(s) == IF s = <<>> THEN 0 ELSE Head(s) + SumSeq(Tail(s))

MaxOf(a, b) == IF a >= b THEN a ELSE b

\* the same finite sequence, every element evaluated once
Listed(f) == SubSeq(f, 1, Len(f))

RECURSIVE SeqsUpTo(_, _)
\* all sequences over S of length 1..n
SeqsUpTo(S, n) ==
    IF n = 0 THEN {}
    ELSE LET shorter == SeqsUpTo(S, n - 1)
         IN  {<<x>> : x \in S} \cup shorter
                \cup {Append(s, x) : s \in {t \in shorter : Len(t) = n - 1}, x \in S}

(***************************************************************************)
(* Python float division of two positive integers, a / b, as far as        *)
(* allocate_by_ratio observes it: math.floor of the rounded quotient and   *)
(* the rounded quotient minus that floor (an exact float subtraction).     *)
(* The fraction is kept as its binary digits after the point, most         *)
(* significant first; the quotient is rounded to MantissaBits significant  *)
(* bits, to nearest, ties to even.                                         *)
(***************************************************************************)
RECURSIVE BitLength(_)
BitLength(n) == IF n = 0 THEN 0 ELSE 1 + BitLength(n \div 2)

RECURSIVE LeadingZeros(_, _)
\* number of zero bits after the binary point before the first one bit of r / b, 0 < r < b
LeadingZeros(r, b) == IF 2 * r >= b THEN 0 ELSE 1 + LeadingZeros(2 * r, b)

RECURSIVE Pow2Mod(_, _)
\* 2^k mod b, by repeated squaring
Pow2Mod(k, b) ==
    IF k = 0 THEN 1 % b
    ELSE LET h == Pow2Mod(k \div 2, b)
         IN  IF k % 2 = 0 THEN (h * h) % b ELSE (2 * ((h * h) % b)) % b

\* what is left of r / b (0 <= r < b) after its first g binary digits, times b * 2^g
RestAfter(r, b, g) == (r * Pow2Mod(g, b)) % b

\* the i-th binary digit after the point of r / b, i >= 1
FractionDigit(r, b, i) == (2 * RestAfter(r, b, i - 1)) \div b

\* adds one unit in the last place; carry is 1 when the digits overflow to 1.0
IncrementBits(ds) ==
    LET zeros == {i \in 1..Len(ds) : ds[i] = 0}
    IN  IF zeros = {} THEN [digits |-> <<>>, carry |-> 1]
        ELSE LET p == CHOOSE i \in zeros : \A j \in zeros : j <= i
             IN  [digits |-> [i \in 1..Len(ds) |->
                                IF i < p THEN ds[i] ELSE IF i = p THEN 1 ELSE 0],
                  carry |-> 0]

FloatDivide(a, b) ==
    LET whole == a \div b
        r == a % b
    IN  IF r = 0 THEN [floor |-> whole, frac |-> <<>>]
        ELSE
          LET exponent == IF whole >= 1 THEN BitLength(whole) - 1
                          ELSE -(LeadingZeros(r, b) + 1)
              g == (MantissaBits - 1) - exponent
              digits == Listed([i \in 1..g |-> FractionDigit(r, b, i)])
              rest == RestAfter(r, b, g)
              lastOdd == IF g = 0 THEN whole % 2 = 1 ELSE digits[g] = 1
              roundUp == \/ 2 * rest > b
                         \/ 2 * rest = b /\ lastOdd
              up == IncrementBits(digits)
          IN  IF ~roundUp THEN [floor |-> whole, frac |-> digits]
              ELSE [floor |-> whole + up.carry, frac |-> up.digits]

FracBit(x, i) == IF i <= Len(x) THEN x[i] ELSE 0

\* x > y for two float fractions given by their binary digits
FracGreater(x, y) ==
    LET differ == {i \in 1..MaxOf(Len(x), Len(y)) : FracBit(x, i) # FracBit(y, i)}
    IN  /\ differ # {}
        /\ LET first == CHOOSE i \in differ : \A j \in differ : i <= j
           IN  FracBit(x, first) > FracBit(y, first)

FracEqual(x, y) == ~FracGreater(x, y) /\ ~FracGreater(y, x)

(***************************************************************************)
(* allocate_by_ratio                                                       *)
(***************************************************************************)
\* position (0-based) of index i in
\*   sorted(range(len(weights)), key=lambda i: raw[i] - floors[i], reverse=True)
\* a stable sort: equal keys keep their index order, also under reverse=True
OrderPosition(raw, i) ==
    Cardinality({j \in 1..Len(raw) :
                    \/ FracGreater(raw[j].frac, raw[i].frac)
                    \/ FracEqual(raw[j].frac, raw[i].frac) /\ j < i})

\* a plausible slip: the floors are returned without distributing the remainder
allocate_floors_only(total, weights) ==
    IF total <= 0 THEN [i \in 1..Len(weights) |-> 0]
    ELSE [i \in 1..Len(weights) |->
            FloatDivide(total * weights[i], SumSeq(weights)).floor]

\* raw = [total * w / total_weight for w in weights], each with its math.floor
RawShares(total, weights) ==
    Listed([i \in 1..Len(weights) |-> FloatDivide(total * weights[i], SumSeq(weights))])

\* floors after: for i in range(remainder): floors[order[i % len(order)]] += 1
DistributeRemainder(total, raw) ==
    LET n == Len(raw)
        floors == Listed([i \in 1..n |-> raw[i].floor])
        remainder == total - SumSeq(floors)
        position == Listed([i \in 1..n |-> OrderPosition(raw, i)])
    IN  [i \in 1..n |->
            floors[i] + Cardinality({k \in 0..(remainder - 1) : k % n = position[i]})]

allocate_by_ratio(total, weights) ==
    IF total <= 0 THEN [i \in 1..Len(weights) |-> 0]
    ELSE DistributeRemainder(total, RawShares(total, weights))

(***************************************************************************)
(* Specification of the allocator alone: a caller invokes                  *)
(* allocate_by_ratio once on arguments drawn from bounded sets.            *)
(***************************************************************************)
WeightLists == SeqsUpTo(1..MaxWeight, MaxWeights) \cup {LEVEL_WEIGHTS}
Totals == (0..MaxTotal) \cup {ScenarioTotal}

InitAlloc ==
    /\ call \in {[fn |-> "allocate_by_ratio", total |-> t, weights |-> w] :
                    t \in Totals, w \in WeightLists}
    /\ ret = NotReturned
    /\ NoBuild

CallAllocateByRatio ==
    /\ call.fn = "allocate_by_ratio"
    /\ ~ret.returned
    /\ ret' = [returned |-> TRUE, value |-> allocate_by_ratio(call.total, call.weights)]
    /\ UNCHANGED call
    /\ UNCHANGED buildVars

NextAlloc == CallAllocateByRatio

SpecAlloc == InitAlloc /\ [][NextAlloc]_vars


(***************************************************************************)
(* Exact (rational) quantities the allocator's contract is stated in.      *)
(***************************************************************************)
ExactFloor(total, weights, i) == (total * weights[i]) \div SumSeq(weights)
\* numerator of the exact fractional part of total * weights[i] / sum(weights)
ExactFracNum(total, weights, i) == (total * weights[i]) % SumSeq(weights)
ExactRemainder(total, weights) ==
    total - SumSeq([i \in 1..Len(weights) |-> ExactFloor(total, weights, i)])
\* rank of i by exact fractional part, largest first, a tie won by the lower index
ExactRank(total, weights, i) ==
    Cardinality({j \in 1..Len(weights) :
        \/ ExactFracNum(total, weights, j) > ExactFracNum(total, weights, i)
        \/ ExactFracNum(total, weights, j) = ExactFracNum(total, weights, i) /\ j < i})

AllocReturned == call.fn = "allocate_by_ratio" /\ ret.returned

\* C7: allocate_by_ratio returns as many non-negative integers as there are
\* weights, summing exactly to total, each the floor or the floor plus one of
\* total * weight / sum(weights); total = 0 gives all zeros; and
\* allocate_by_ratio(100, [55, 65, 120]) sums to 100.
C7_AllocatorExact ==
    AllocReturned =>
        LET t == call.total
            w == call.weights
            v == ret.value
        IN  /\ DOMAIN v = 1..Len(w)
            /\ \A i \in 1..Len(w) :
                    /\ v[i] \in Nat
                    /\ v[i] \in {ExactFloor(t, w, i), ExactFloor(t, w, i) + 1}
            /\ SumSeq(v) = t
            /\ (t = 0 => \A i \in 1..Len(w) : v[i] = 0)
            /\ (t = ScenarioTotal /\ w = LEVEL_WEIGHTS => SumSeq(v) = ScenarioTotal)

\* a call whose remainder is positive has returned: allocate_by_ratio(100, [55, 65, 120])
C7_Witness ==
    /\ AllocReturned
    /\ call.total = ScenarioTotal /\ call.weights = LEVEL_WEIGHTS
    /\ ExactRemainder(call.total, call.weights) > 0
    /\ ret.value = <<23, 27, 50>>

\* C8: with r = total - sum of floors, exactly the r positions with the largest
\* fractional part of total * weight / sum(weights) receive one extra unit, a tie
\* in fractional part being won by the lower index, and r is smaller than the
\* number of weights.
C8_RemainderRule ==
    AllocReturned =>
        LET t == call.total
            w == call.weights
            r == ExactRemainder(t, w)
        IN  /\ r < Len(w)
            /\ \A i \in 1..Len(w) :
                    ret.value[i] = ExactFloor(t, w, i)
                                    + (IF ExactRank(t, w, i) < r THEN 1 ELSE 0)


(***************************************************************************)
(* choose_group_count                                                      *)
(*                                                                         *)
(* math.ceil(total / 30) and math.floor(total / 20) are taken of float     *)
(* quotients; for the totals of this model (far below 2^53 / 30) the       *)
(* rounded quotient is an integer exactly when the exact one is, so the    *)
(* integer forms below are what the code computes.  The key                *)
(* abs(total / g - 25) is compared exactly: two different keys differ by   *)
(* at least 1 / (g * h), far more than the rounding of total / g.          *)
(***************************************************************************)
CeilDiv(a, b) == (a + b - 1) \div b

Abs(x) == IF x >= 0 THEN x ELSE -x

\* abs(total / g - 25) < abs(total / h - 25), both sides multiplied by g * h
KeyLess(total, g, h) == Abs(total - TARGET * g) * h < Abs(total - TARGET * h) * g

\* a plausible slip: a tie between two candidates goes to the larger group count
choose_group_count_last_tie(total) ==
    IF total <= MAX_WORDS THEN 1
    ELSE IF total <= TWO_GROUPS_MAX THEN 2
    ELSE
      LET lower == CeilDiv(total, MAX_WORDS)
          upper == MaxOf(lower, total \div MIN_WORDS)
          candidates == lower..upper
      IN  CHOOSE g \in candidates :
            \A h \in candidates : ~KeyLess(total, h, g) /\ (KeyLess(total, g, h) \/ h <= g)

\* a plausible slip: the count is taken from the target size alone, outside the
\* candidate range
choose_group_count_by_target(total) ==
    IF total <= MAX_WORDS THEN 1
    ELSE IF total <= TWO_GROUPS_MAX THEN 2
    ELSE CeilDiv(total, TARGET)

choose_group_count(total) ==
    IF total <= MAX_WORDS THEN 1
    ELSE IF MAX_WORDS + 1 <= total /\ total <= TWO_GROUPS_MAX THEN 2
    ELSE
      LET lower == CeilDiv(total, MAX_WORDS)
          upper == MaxOf(lower, total \div MIN_WORDS)
          candidates == lower..upper
          \* min(candidates, key=...): the first candidate no other one beats
      IN  CHOOSE g \in candidates :
            \A h \in candidates : ~KeyLess(total, h, g) /\ (KeyLess(total, g, h) \/ g <= h)

(***************************************************************************)
(* Specification of choose_group_count alone.                              *)
(***************************************************************************)
MaxCountTotal == 320  \* choose_group_count: totals 0..MaxCountTotal

InitCount ==
    /\ call \in {[fn |-> "choose_group_count", total |-> t] : t \in 0..MaxCountTotal}
    /\ ret = NotReturned
    /\ NoBuild

CallChooseGroupCount ==
    /\ call.fn = "choose_group_count"
    /\ ~ret.returned
    /\ ret' = [returned |-> TRUE, value |-> choose_group_count(call.total)]
    /\ UNCHANGED call
    /\ UNCHANGED buildVars

NextCount == CallChooseGroupCount

SpecCount == InitCount /\ [][NextCount]_vars

CountReturned == call.fn = "choose_group_count" /\ ret.returned

\* C10: for every total >= 40, choose_group_count returns the g in
\* [ceil(total/30), max(ceil(total/30), floor(total/20))] that minimizes
\* |total/g - 25|, the smallest such g when two candidates are equally close.
C10_GroupCountChoice ==
    CountReturned /\ call.total >= TWO_GROUPS_MAX + 1 =>
        LET t == call.total
            g == ret.value
            lo == CeilDiv(t, MAX_WORDS)
            hi == MaxOf(lo, t \div MIN_WORDS)
        IN  /\ g \in lo..hi
            /\ \A h \in lo..hi :
                  \* |t/g - 25| <= |t/h - 25|, and strictly closer than any smaller h
                  /\ Abs(t - TARGET * g) * h <= Abs(t - TARGET * h) * g
                  /\ (h < g => Abs(t - TARGET * g) * h < Abs(t - TARGET * h) * g)

\* total = 60: the candidates 2 and 3 are equally close (30 and 20) and 2 is returned
C10_Witness ==
    /\ CountReturned
    /\ call.total = 60
    /\ Abs(60 - TARGET * 2) * 3 = Abs(60 - TARGET * 3) * 2
    /\ ret.value = 2


(***************************************************************************)
(* merge_small_sublevels                                                   *)
(*                                                                         *)
(* A sub-level is a pair (labels, words), a record here.                   *)
(***************************************************************************)
\* The label lists and word lists of the argument are objects that
\* "current_labels += labels" and "current_words += words" extend in place.
\* heap[k] is what the lists of sublevels[k] hold; the accumulator and the
\* pairs of merged refer to those lists by k.

\* the lists at k extended by the lists at j
Extended(heap, k, j) ==
    [heap EXCEPT ![k] = [labels |-> heap[k].labels \o heap[j].labels,
                         words |-> heap[k].words \o heap[j].words]]

\* a plausible slip: merging appends the words but not the labels
RECURSIVE MergeLoopDroppingLabels(_, _, _, _)
MergeLoopDroppingLabels(heap, emitted, current, rest) ==
    IF rest = <<>> THEN [heap |-> heap, merged |-> emitted, current |-> current]
    ELSE IF Len(heap[current].words) < MIN_WORDS
         THEN MergeLoopDroppingLabels(
                  [heap EXCEPT ![current].words = heap[current].words \o heap[Head(rest)].words],
                  emitted, current, Tail(rest))
         ELSE MergeLoopDroppingLabels(heap, Append(emitted, current), Head(rest), Tail(rest))

\* for labels, words in sublevels[1:]: ... ; the state of the loop is the
\* lists, the list emitted and the accumulator (current_labels, current_words)
RECURSIVE MergeLoop(_, _, _, _)
MergeLoop(heap, emitted, current, rest) ==
    IF rest = <<>> THEN [heap |-> heap, merged |-> emitted, current |-> current]
    ELSE IF Len(heap[current].words) < MIN_WORDS
         THEN MergeLoop(Extended(heap, current, Head(rest)), emitted, current, Tail(rest))
         ELSE MergeLoop(heap, Append(emitted, current), Head(rest), Tail(rest))

\* the loop over a non-empty argument, from current = sublevels[0]
Looped(sublevels) ==
    MergeLoop(sublevels, <<>>, 1, [k \in 1..(Len(sublevels) - 1) |-> k + 1])

\* the list merged with the lists its pairs refer to
Held(heap, emitted) == [k \in 1..Len(emitted) |-> heap[emitted[k]]]

\* a plausible slip: the backward merge of a small tail is left out
merge_without_backward(sublevels) ==
    IF sublevels = <<>> THEN <<>>
    ELSE Held(Looped(sublevels).heap,
              Append(Looped(sublevels).merged, Looped(sublevels).current))

\* the lists and the list merged after the statements that follow the loop
Finished(after) ==
    IF Len(after.heap[after.current].words) < MIN_WORDS /\ after.merged # <<>>
    THEN [heap |-> Extended(after.heap, after.merged[Len(after.merged)], after.current),
          merged |-> after.merged]
    ELSE [heap |-> after.heap, merged |-> Append(after.merged, after.current)]

\* the list returned
merge_small_sublevels(sublevels) ==
    IF sublevels = <<>> THEN <<>>
    ELSE Held(Finished(Looped(sublevels)).heap, Finished(Looped(sublevels)).merged)

\* the argument as the call leaves it
SublevelsAfter(sublevels) ==
    IF sublevels = <<>> THEN <<>>
    ELSE Finished(Looped(sublevels)).heap

(***************************************************************************)
(* Specification of merge_small_sublevels alone: an ordered list of        *)
(* sub-levels with distinct labels and distinct words, the sizes drawn     *)
(* from SublevelSizes.                                                     *)
(***************************************************************************)
MaxSublevels == 4     \* merge_small_sublevels: 0..MaxSublevels sub-levels
SizeSpread == 6       \* a sub-level has 1, MIN_WORDS - 1, MIN_WORDS, or up to SizeSpread other sizes

STAGE_LABELS ==
    << "beginner_1", "beginner_2", "beginner_3",
       "intermediate_1", "intermediate_2", "intermediate_3",
       "advanced_1", "advanced_2", "advanced_3",
       "advanced_4", "advanced_5", "advanced_6" >>

SublevelSizes ==
    {1, MIN_WORDS - 1, MIN_WORDS} \cup {1 + SizeSpread * k : k \in 1..(SizeSpread - 2)}

\* the sub-levels with the given sizes: labels in stage order, words numbered on
SublevelsOfSizes(sizes) ==
    [k \in 1..Len(sizes) |->
        LET before == SumSeq(SubSeq(sizes, 1, k - 1))
        IN  [labels |-> <<STAGE_LABELS[k]>>,
             words |-> [i \in 1..sizes[k] |-> before + i - 1]]]

InitMerge ==
    /\ call \in {[fn |-> "merge_small_sublevels", sublevels |-> SublevelsOfSizes(sizes)] :
                    sizes \in {<<>>} \cup SeqsUpTo(SublevelSizes, MaxSublevels)}
    /\ ret = NotReturned
    /\ NoBuild

CallMergeSmallSublevels ==
    /\ call.fn = "merge_small_sublevels"
    /\ ~ret.returned
    \* ret.sublevels is the argument as the call leaves it
    /\ ret' = [returned |-> TRUE, value |-> merge_small_sublevels(call.sublevels),
               sublevels |-> SublevelsAfter(call.sublevels)]
    /\ UNCHANGED call
    /\ UNCHANGED buildVars

NextMerge == CallMergeSmallSublevels

SpecMerge == InitMerge /\ [][NextMerge]_vars

MergeReturned == call.fn = "merge_small_sublevels" /\ ret.returned

RECURSIVE Flatten(_)
\* the concatenation of a short list of lists
Flatten(ss) == IF ss = <<>> THEN <<>> ELSE Head(ss) \o Flatten(Tail(ss))

AllLabels(subs) == Flatten([k \in 1..Len(subs) |-> subs[k].labels])
AllWords(subs) == Flatten([k \in 1..Len(subs) |-> subs[k].words])
Range(f) == {f[i] : i \in DOMAIN f}

\* C5: every bucket returned by merge_small_sublevels has at least 20 words,
\* except that the result may be one single bucket with fewer than 20 words when
\* all sub-levels together hold fewer than 20 words.
C5_MergerSizeContract ==
    MergeReturned =>
        \A k \in 1..Len(ret.value) :
            \/ Len(ret.value[k].words) >= MIN_WORDS
            \/ /\ Len(ret.value) = 1
               /\ Len(AllWords(call.sublevels)) < MIN_WORDS

\* a small last sub-level follows an emitted bucket and was merged backward
C5_Witness ==
    /\ MergeReturned
    /\ Len(call.sublevels) >= 3
    /\ Len(call.sublevels[1].words) >= MIN_WORDS
    /\ Len(call.sublevels[Len(call.sublevels)].words) < MIN_WORDS
    /\ Len(call.sublevels[Len(call.sublevels) - 1].words) >= MIN_WORDS
    /\ Len(ret.value) = 2
    /\ Len(ret.value[2].labels) = 2

\* C6: the buckets returned by merge_small_sublevels together contain exactly
\* the words of the input sub-levels (same count, each word once), every input
\* label is in exactly one output label list, and each output label list is a
\* run of adjacent input labels in their original order.
C6_MergerConservation ==
    MergeReturned =>
        LET inWords == AllWords(call.sublevels)
            outWords == AllWords(ret.value)
        IN  /\ Len(outWords) = Len(inWords)
            /\ Range(outWords) = Range(inWords)
            /\ Cardinality(Range(outWords)) = Len(outWords)
            /\ AllLabels(ret.value) = AllLabels(call.sublevels)
            /\ \A k \in 1..Len(ret.value) : ret.value[k].labels # <<>>

\* small sub-levels were absorbed forward: fewer buckets than sub-levels, several buckets
C6_Witness ==
    /\ MergeReturned
    /\ Len(call.sublevels) = MaxSublevels
    /\ Len(ret.value) = 2
    /\ Len(ret.value[1].labels) >= 2
    /\ Len(ret.value[2].labels) >= 2

\* C29 (as claimed): after merge_small_sublevels(sublevels) returns, every
\* (label list, word list) pair of the input list holds the same labels and
\* the same words as before the call, so calling it a second time on the same
\* input returns an equal result.
C29_InputUnchanged ==
    MergeReturned =>
        /\ ret.sublevels = call.sublevels
        /\ merge_small_sublevels(ret.sublevels) = ret.value

(***************************************************************************)
(* random.Random: a seeded pseudo-random stream.  The generator of the     *)
(* standard library is stood in for by a linear congruential generator     *)
(* with 15 bits of state: a stream is a deterministic function of its      *)
(* seed and every draw advances it, which is all the pipeline relies on.   *)
(***************************************************************************)
\* a plausible slip: the stream is not a function of the seed alone (here the
\* number of the call stands for whatever else seeds it, such as the time)
random_seed_per_call(seed) == (20077 * ((seed + run) % 32768) + 12345) % 32768

\* random.Random(seed): an int seed is taken by its absolute value
RandomSeed(seed) == (20077 * (Abs(seed) % 32768) + 12345) % 32768

\* the map s |-> (a * s + c) % 2^15 that k draws apply to the state, as <<a, c>>
RECURSIVE Advance(_)
Advance(k) ==
    IF k = 0 THEN <<1, 0>>
    ELSE LET h == Advance(k \div 2)
             twice == <<(h[1] * h[1]) % 32768, (h[1] * h[2] + h[2]) % 32768>>
         IN  IF k % 2 = 0 THEN twice
             ELSE <<(20077 * twice[1]) % 32768, (20077 * twice[2] + 12345) % 32768>>

\* the state of the stream after k draws from state stream
StateAfter(stream, k) == LET m == Advance(k) IN (m[1] * stream + m[2]) % 32768

\* the value in 0..n-1 that the k-th draw from state stream gives for _randbelow(n)
RandBelow(stream, k, n) == (StateAfter(stream, k) \div 16) % n

(***************************************************************************)
(* random.shuffle(x):                                                      *)
(*     for i in reversed(range(1, len(x))):                                *)
(*         j = randbelow(i + 1);  x[i], x[j] = x[j], x[i]                  *)
(* The t-th swap (t = 1..n-1) exchanges Python positions n - t and j.      *)
(* ShufflePerm(stream, n, lo, hi)[p] is the position before swaps lo..hi of   *)
(* the item that is at position p after them (positions 1-based).          *)
(***************************************************************************)
RECURSIVE ShufflePerm(_, _, _, _)
ShufflePerm(stream, n, lo, hi) ==
    IF lo > hi THEN [p \in 1..n |-> p]
    ELSE IF lo = hi
         THEN LET i == n - lo
                  j == RandBelow(stream, lo, i + 1)
              IN  [p \in 1..n |-> IF p = i + 1 THEN j + 1 ELSE IF p = j + 1 THEN i + 1 ELSE p]
         ELSE LET mid == (lo + hi) \div 2
                  first == ShufflePerm(stream, n, lo, mid)
                  second == ShufflePerm(stream, n, mid + 1, hi)
              IN  [p \in 1..n |-> first[second[p]]]

Shuffle(x, stream) ==
    LET n == Len(x)
        perm == ShufflePerm(stream, n, 1, n - 1)
    IN  [list |-> [p \in 1..n |-> x[perm[p]]],
         rng |-> IF n >= 2 THEN StateAfter(stream, n - 1) ELSE stream]

(***************************************************************************)
(* split_into_groups                                                       *)
(***************************************************************************)
\* a plausible slip: the larger half first, the extra items to the last groups
group_sizes_extra_last(total) ==
    IF total <= MAX_WORDS THEN <<total>>
    ELSE IF total <= TWO_GROUPS_MAX THEN <<total - total \div 2, total \div 2>>
    ELSE LET count == choose_group_count(total)
         IN  [i \in 1..count |->
                total \div count + (IF i > count - (total % count) THEN 1 ELSE 0)]

\* a plausible slip: a list of exactly 30 words is already split in two
group_sizes_split_at_30(total) ==
    IF total < MAX_WORDS THEN <<total>>
    ELSE IF total <= TWO_GROUPS_MAX THEN <<total \div 2, total - total \div 2>>
    ELSE LET count == choose_group_count(total)
         IN  [i \in 1..count |->
                total \div count + (IF i - 1 < total % count THEN 1 ELSE 0)]

group_sizes(total) ==
    IF total < MIN_WORDS THEN <<total>>
    ELSE IF total <= MAX_WORDS THEN <<total>>
    ELSE IF MAX_WORDS + 1 <= total /\ total <= TWO_GROUPS_MAX
         THEN LET half == total \div 2 IN <<half, total - half>>
    ELSE LET count == choose_group_count(total)
             base == total \div count
             extra == total % count
         IN  [i \in 1..count |-> base + (IF i - 1 < extra THEN 1 ELSE 0)]

RECURSIVE JoinPlus(_)
\* '+'.join(labels)
JoinPlus(labels) ==
    IF labels = <<>> THEN ""
    ELSE IF Len(labels) = 1 THEN labels[1]
    ELSE labels[1] \o "+" \o JoinPlus(Tail(labels))

\* a plausible slip: the slice stops one item early
slice_one_short(words, a, b) ==
    LET hi == IF b - 1 < Len(words) THEN b - 1 ELSE Len(words)
    IN  IF a >= hi THEN <<>> ELSE [i \in 1..(hi - a) |-> words[a + i]]

\* words[a : b] of a Python list, clipped to the list like a Python slice
Slice(words, a, b) ==
    LET hi == IF b < Len(words) THEN b ELSE Len(words)
    IN  IF a >= hi THEN <<>> ELSE [i \in 1..(hi - a) |-> words[a + i]]

\* a plausible slip: the stage labels are left out of the id
group_id_without_stages(pos, labels, idx) ==
    pos \o ":g" \o ToString(idx)

\* f"{pos}:{'+'.join(labels)}:g{idx}"
GroupId(pos, labels, idx) ==
    pos \o ":" \o JoinPlus(labels) \o ":g" \o ToString(idx)

\* returns the groups, and the stream and the word list as the call leaves them
split_into_groups(labels, words, pos, stream) ==
    LET shuffled == Shuffle(words, stream)
        total == Len(words)
        sizes == group_sizes(total)
        cursor(idx) == SumSeq(SubSeq(sizes, 1, idx - 1))
        slice_words(idx) == Slice(shuffled.list, cursor(idx), cursor(idx) + sizes[idx])
    IN  [groups |-> [idx \in 1..Len(sizes) |->
                        [id |-> GroupId(pos, labels, idx),
                         pos |-> pos,
                         stages |-> labels,
                         size |-> Len(slice_words(idx)),
                         entries |-> slice_words(idx)]],
         rng |-> shuffled.rng,
         words |-> shuffled.list]

(***************************************************************************)
(* Specification of split_into_groups alone: a list of distinct words, a   *)
(* label list and a stream freshly seeded.                                 *)
(***************************************************************************)
MaxWords == 90        \* split_into_groups: word lists of 0..MaxWords words
MaxSeed == 2          \* seeds 1..MaxSeed, and their negatives in build_groups

LabelLists == {<<STAGE_LABELS[1]>>, <<STAGE_LABELS[2], STAGE_LABELS[3]>>}

InitSplit ==
    /\ call \in {[fn |-> "split_into_groups", labels |-> l,
                   words |-> [i \in 1..n |-> i - 1], pos |-> "noun",
                   rng |-> RandomSeed(seed)] :
                    l \in LabelLists, n \in 0..MaxWords, seed \in 1..MaxSeed}
    /\ ret = NotReturned
    /\ NoBuild

CallSplitIntoGroups ==
    /\ call.fn = "split_into_groups"
    /\ ~ret.returned
    /\ LET out == split_into_groups(call.labels, call.words, call.pos, call.rng)
       IN  /\ ret' = [returned |-> TRUE, value |-> out.groups]
           \* rng.shuffle(words) works in place on the caller's list and stream
           /\ call' = [call EXCEPT !.words = out.words, !.rng = out.rng]
    /\ UNCHANGED buildVars

NextSplit == CallSplitIntoGroups

SpecSplit == InitSplit /\ [][NextSplit]_vars

SplitReturned == call.fn = "split_into_groups" /\ ret.returned

GroupSizesOf(gs) == [k \in 1..Len(gs) |-> Len(gs[k].entries)]

\* C9: for a word list of length total, the sizes of the groups returned by
\* split_into_groups are, in order, [total] when total <= 30;
\* [floor(total/2), total - floor(total/2)] when 31 <= total <= 39; and, when
\* total >= 40 with chosen group count g, g sizes equal to total // g with the
\* first total % g groups one larger.
C9_PartitionSizeVector ==
    SplitReturned =>
        LET total == Len(call.words)
            sizes == GroupSizesOf(ret.value)
            g == choose_group_count(total)
        IN  /\ \A k \in 1..Len(ret.value) : ret.value[k].size = sizes[k]
            /\ (total <= 30 => sizes = <<total>>)
            /\ (31 <= total /\ total <= 39 =>
                    sizes = <<total \div 2, total - total \div 2>>)
            /\ (total >= 40 =>
                    /\ Len(sizes) = g
                    /\ \A k \in 1..g :
                          /\ sizes[k] = total \div g + (IF k <= total % g THEN 1 ELSE 0)
                          /\ sizes[k] - total \div g \in {0, 1})

\* a list of 40 or more words whose length the group count does not divide
C9_Witness ==
    /\ SplitReturned
    /\ Len(call.words) >= 40
    /\ Len(ret.value) >= 3
    /\ Len(call.words) % Len(ret.value) # 0
    /\ ret.value[1].size = ret.value[Len(ret.value)].size + 1

\* C25: for every total >= 40 the candidate range
\* [ceil(total/30), floor(total/20)] is non-empty, the group count is chosen
\* from it, and every group returned by split_into_groups holds between 20 and
\* 30 entries inclusive.
C25_LargeBucketRange ==
    SplitReturned /\ Len(call.words) >= 40 =>
        LET total == Len(call.words)
            lower == (total + 29) \div 30
            upper == total \div 20
        IN  /\ lower <= upper
            /\ Len(ret.value) >= lower
            /\ Len(ret.value) <= upper
            /\ \A k \in 1..Len(ret.value) :
                    /\ Len(ret.value[k].entries) >= 20
                    /\ Len(ret.value[k].entries) <= 30
                    /\ ret.value[k].size = Len(ret.value[k].entries)

\* a list of 59 words, the longest whose candidate range holds the single count
\* 2, was split into a group of 30 and a group of 29
C25_Witness ==
    /\ SplitReturned
    /\ Len(call.words) = 59
    /\ Len(ret.value) = 2
    /\ ret.value[1].size = 30
    /\ ret.value[2].size = 29


(***************************************************************************)
(* Part-of-speech classification.                                          *)
(*                                                                         *)
(* A word is the sequence of its characters, each character a one-element  *)
(* token; the letters with a diacritic are written in the x-system         *)
(* ("cx" is the one character c-circumflex, "ux" is u-breve).              *)
(***************************************************************************)
PERSONAL_PRONOUNS ==
    {
      <<"c", "i">>, <<"i", "l", "i">>, <<"l", "i">>, <<"m", "i">>, <<"n", "i">>,
      <<"o", "n", "i">>, <<"v", "i">>, <<"gx", "i">>, <<"sx", "i">>
    }

PRONOUNS ==
    {
      <<"m", "e", "m">>, <<"o", "n", "i">>, <<"s", "i">>
    }

CORRELATIVE_PREFIXES ==
    <<
      <<"k", "i">>, <<"t", "i">>, <<"i">>, <<"n", "e", "n", "i">>, <<"cx", "i">>, <<"cx">>
    >>

CORRELATIVE_SUFFIXES ==
    <<
      <<"u">>, <<"o">>, <<"a">>, <<"e">>, <<"a", "l">>, <<"a", "m">>, <<"e", "l">>,
      <<"o", "m">>, <<"e", "s">>
    >>

CORRELATIVE_SPECIAL ==
    {
      <<"cx", "i">>, <<"cx", "i", "u">>, <<"cx", "i", "u", "j">>
    }

PREPOSITIONS ==
    {
      <<"a", "l">>, <<"a", "n", "s", "t", "a", "t", "a", "ux">>,
      <<"a", "n", "t", "a", "ux">>, <<"a", "p", "u", "d">>, <<"d", "a">>, <<"d", "e">>,
      <<"d", "i", "s", "d", "e">>, <<"e", "k", "s", "t", "e", "r">>,
      <<"e", "k", "s", "t", "e", "r", "e", "n">>, <<"e", "l">>, <<"e", "n">>,
      <<"i", "n", "t", "e", "r">>, <<"i", "n", "t", "e", "r", "n", "e">>, <<"j", "e">>,
      <<"k", "o", "n", "t", "r", "a", "ux">>, <<"k", "r", "o", "m">>, <<"k", "u", "n">>,
      <<"l", "a", "ux">>, <<"m", "a", "l", "a", "n", "t", "a", "ux">>,
      <<"m", "a", "l", "g", "r", "a", "ux">>, <<"p", "e", "r">>, <<"p", "o">>,
      <<"p", "o", "r">>, <<"p", "o", "s", "t">>, <<"p", "r", "e", "t", "e", "r">>,
      <<"p", "r", "i">>, <<"p", "r", "o">>, <<"s", "e", "n">>, <<"s", "u", "b">>,
      <<"s", "u", "p", "e", "r">>, <<"s", "u", "r">>, <<"t", "r", "a">>,
      <<"t", "r", "a", "n", "s">>, <<"cx", "e">>, <<"cx", "i", "r", "k", "a", "ux">>,
      <<"gx", "i", "s">>
    }

CONJUNCTIONS ==
    {
      <<"a", "ux">>, <<"d", "o">>, <<"d", "u", "m">>, <<"k", "a", "j">>, <<"k", "e">>,
      <<"k", "v", "a", "n", "k", "a", "m">>, <<"k", "v", "a", "z", "a", "ux">>,
      <<"n", "e", "k">>, <<"o", "l">>, <<"s", "e">>, <<"s", "e", "d">>,
      <<"t", "a", "m", "e", "n">>, <<"t", "i", "a", "l">>, <<"cx", "a", "r">>, <<"cx", "u">>
    }

BARE_ADVERBS ==
    {
      <<"a", "d", "i", "a", "ux">>, <<"a", "j", "n">>,
      <<"a", "l", "m", "e", "n", "a", "ux">>, <<"a", "n", "k", "a", "ux">>,
      <<"a", "n", "k", "o", "r", "a", "ux">>, <<"a", "p", "a", "r", "t", "e">>,
      <<"a", "p", "e", "n", "a", "ux">>, <<"b", "a", "l", "d", "a", "ux">>,
      <<"b", "o", "n", "e">>, <<"d", "e", "n", "o", "v", "e">>, <<"d", "e", "s">>,
      <<"e", "g", "a", "l", "e">>, <<"e", "cx">>, <<"f", "o", "j", "e">>,
      <<"f", "o", "r">>, <<"h", "i", "e", "r", "a", "ux">>,
      <<"h", "o", "d", "i", "a", "ux">>, <<"i", "o", "m">>,
      <<"i", "o", "m", "e", "t", "e">>, <<"j", "a">>, <<"j", "a", "m">>, <<"j", "e", "n">>,
      <<"j", "e", "s">>, <<"k", "u", "n", "e">>, <<"m", "a", "l", "b", "o", "n", "e">>,
      <<"m", "a", "l", "p", "r", "o", "k", "s", "i", "m", "e">>,
      <<"m", "a", "l", "r", "e", "k", "t", "e">>, <<"m", "o", "r", "g", "a", "ux">>,
      <<"m", "u", "l", "t", "e">>, <<"n", "e">>, <<"n", "e", "n", "i", "a", "m">>,
      <<"n", "u", "n">>, <<"n", "u", "r">>, <<"p", "a", "r", "t", "e">>,
      <<"p", "l", "e", "j">>, <<"p", "l", "i">>,
      <<"p", "l", "i", "-", "m", "a", "l", "p", "l", "i">>,
      <<"p", "r", "e", "s", "k", "a", "ux">>, <<"p", "r", "o", "k", "s", "i", "m", "e">>,
      <<"r", "e", "f", "o", "j", "e">>, <<"r", "e", "k", "t", "e">>,
      <<"s", "e", "k", "v", "e">>, <<"s", "u", "f", "i", "cx", "e">>, <<"t", "i", "e">>,
      <<"t", "i", "e", " ", "cx", "i">>, <<"t", "r", "e">>, <<"t", "u", "j">>,
      <<"t", "u", "t", "e">>, <<"cx", "i", "a", "m">>, <<"cx", "i", "e">>
    }

NUMERALS ==
    {
      <<"c", "e", "n", "t">>, <<"d", "e", "k">>, <<"d", "u">>,
      <<"d", "u", "c", "e", "n", "t">>, <<"k", "v", "a", "r">>, <<"k", "v", "i", "n">>,
      <<"m", "i", "l">>, <<"m", "i", "l", "i", "a", "r", "d", "o">>,
      <<"m", "i", "l", "i", "o", "n", "o">>, <<"n", "a", "ux">>, <<"n", "u", "l">>,
      <<"n", "u", "l", "o">>, <<"o", "k">>, <<"s", "e", "p">>, <<"s", "e", "s">>,
      <<"t", "r", "i">>, <<"t", "r", "i", "c", "e", "n", "t">>, <<"u", "n", "u">>
    }

NUMERAL_STEMS ==
    <<
      <<"u", "n", "u">>, <<"d", "u">>, <<"t", "r", "i">>, <<"k", "v", "a", "r">>,
      <<"k", "v", "i", "n">>, <<"s", "e", "s">>, <<"s", "e", "p">>, <<"o", "k">>,
      <<"n", "a", "ux">>, <<"d", "e", "k">>, <<"c", "e", "n", "t">>, <<"m", "i", "l">>
    >>

\* a plausible slip: the infinitive ending -i is left out of the verb endings
verb_endings_without_infinitive ==
    <<
      <<"a", "s">>, <<"i", "s">>, <<"o", "s">>, <<"u", "s">>, <<"u">>
    >>

VERB_ENDINGS ==
    <<
      <<"a", "s">>, <<"i", "s">>, <<"o", "s">>, <<"u", "s">>, <<"u">>, <<"i">>
    >>


LOWER_LETTERS ==
    << "a", "b", "c", "d", "e", "f", "g", "h", "i", "j", "k", "l", "m", "n", "o", "p", "q",
       "r", "s", "t", "u", "v", "w", "x", "y", "z", "cx", "gx", "hx", "jx", "sx", "ux" >>
UPPER_LETTERS ==
    << "A", "B", "C", "D", "E", "F", "G", "H", "I", "J", "K", "L", "M", "N", "O", "P", "Q",
       "R", "S", "T", "U", "V", "W", "X", "Y", "Z", "CX", "GX", "HX", "JX", "SX", "UX" >>
DIGITS == {"0", "1", "2", "3", "4", "5", "6", "7", "8", "9"}
WHITESPACE == {" "}

\* str.lower()
LowerChar(c) ==
    IF \E k \in 1..Len(UPPER_LETTERS) : UPPER_LETTERS[k] = c
    THEN LOWER_LETTERS[CHOOSE k \in 1..Len(UPPER_LETTERS) : UPPER_LETTERS[k] = c]
    ELSE c
Lower(w) == [i \in 1..Len(w) |-> LowerChar(w[i])]

\* str.strip()
Strip(w) ==
    LET solid == {i \in 1..Len(w) : w[i] \notin WHITESPACE}
    IN  IF solid = {} THEN <<>>
        ELSE SubSeq(w, CHOOSE i \in solid : \A j \in solid : i <= j,
                       CHOOSE i \in solid : \A j \in solid : j <= i)

StartsWith(w, prefix) ==
    Len(prefix) <= Len(w) /\ SubSeq(w, 1, Len(prefix)) = prefix
EndsWith(w, suffix) ==
    Len(suffix) <= Len(w) /\ SubSeq(w, Len(w) - Len(suffix) + 1, Len(w)) = suffix

\* a plausible slip: one ending is removed, not every one
strip_one_ending(word) ==
    IF word # <<>> /\ word[Len(word)] \in {"j", "n"} THEN SubSeq(word, 1, Len(word) - 1)
    ELSE word

\* while base.endswith(("j", "n")): base = base[:-1]
strip_plural_accusative(word) ==
    LET kept == {i \in 1..Len(word) : word[i] \notin {"j", "n"}}
    IN  IF kept = {} THEN <<>>
        ELSE SubSeq(word, 1, CHOOSE i \in kept : \A j \in kept : j <= i)

is_correlative(word) ==
    \E p \in 1..Len(CORRELATIVE_PREFIXES) : \E q \in 1..Len(CORRELATIVE_SUFFIXES) :
        word = CORRELATIVE_PREFIXES[p] \o CORRELATIVE_SUFFIXES[q]

\* w.isdigit()
IsDigit(w) == w # <<>> /\ \A i \in 1..Len(w) : w[i] \in DIGITS

\* re.match(r"^(unu|du|tri|kvar|kvin|ses|sep|ok|nau|dek|cent|mil)[a-z...]*$", w)
MatchesNumeralPattern(w) ==
    \E k \in 1..Len(NUMERAL_STEMS) :
        /\ StartsWith(w, NUMERAL_STEMS[k])
        /\ \A i \in (Len(NUMERAL_STEMS[k]) + 1)..Len(w) :
                \E l \in 1..Len(LOWER_LETTERS) : LOWER_LETTERS[l] = w[i]

classify_pos(word) ==
    LET w == Lower(Strip(word))
        base == strip_plural_accusative(w)
    IN  IF w = <<>> THEN "unknown"
        ELSE IF StartsWith(w, <<"-">>) /\ EndsWith(w, <<"-">>) THEN "suffix"
        ELSE IF StartsWith(w, <<"-">>) THEN "suffix"
        ELSE IF EndsWith(w, <<"-">>) THEN "prefix"
        ELSE IF w \in CORRELATIVE_SPECIAL \/ is_correlative(w) THEN "correlative"
        ELSE IF w \in PERSONAL_PRONOUNS THEN "personal_pronoun"
        ELSE IF w \in PRONOUNS THEN "pronoun"
        ELSE IF IsDigit(w) \/ w \in NUMERALS \/ MatchesNumeralPattern(w) THEN "numeral"
        ELSE IF w \in PREPOSITIONS THEN "preposition"
        ELSE IF w \in CONJUNCTIONS THEN "conjunction"
        ELSE IF w \in BARE_ADVERBS THEN "bare_adverb"
        ELSE IF EndsWith(base, <<"e">>) THEN "adverb"
        ELSE IF \E k \in 1..Len(VERB_ENDINGS) : EndsWith(base, VERB_ENDINGS[k]) THEN "verb"
        ELSE IF EndsWith(base, <<"a">>) THEN "adjective"
        ELSE IF EndsWith(base, <<"o">>) THEN "noun"
        ELSE "other"


(***************************************************************************)
(* load_vocab                                                              *)
(*                                                                         *)
(* A row of the file has the columns Esperanto, Japanese_Trans and         *)
(* Unified_Level; the index idx of df.iterrows() is the row number from 0. *)
(* A cell is what pd.read_csv makes of it: a str, a number, or NaN for a   *)
(* cell that is empty in the file.                                         *)
(***************************************************************************)
TextCell(w) == [kind |-> "str", text |-> w]
NumberCell(x) == [kind |-> "float", number |-> x]
NaN == [kind |-> "nan"]

DIGIT_SEQ == <<"0", "1", "2", "3", "4", "5", "6", "7", "8", "9">>

\* the number a str of decimal digits denotes
RECURSIVE DigitsValue(_)
DigitsValue(w) ==
    IF w = <<>> THEN 0
    ELSE 10 * DigitsValue(SubSeq(w, 1, Len(w) - 1))
         + (CHOOSE d \in 0..9 : DIGIT_SEQ[d + 1] = w[Len(w)])

\* str(cell): a str is itself, str(float("nan")) is "nan"
Str(cell) == IF cell.kind = "nan" THEN <<"n", "a", "n">> ELSE cell.text

\* float(cell) raises ValueError for a str that is not a number
FloatRaises(cell) == cell.kind = "str" /\ ~IsDigit(Strip(cell.text))

\* a float: a number, or nan
Number(x) == [nan |-> FALSE, number |-> x]
NotANumber == [nan |-> TRUE, number |-> 0]

\* x < y, x <= y and x == y of two floats: False whenever one of them is nan
FloatLess(x, y) == ~x.nan /\ ~y.nan /\ x.number < y.number
FloatAtMost(x, y) == ~x.nan /\ ~y.nan /\ x.number <= y.number
FloatEqual(x, y) == ~x.nan /\ ~y.nan /\ x.number = y.number

\* float(cell) otherwise: the number, or nan for an empty cell
Float(cell) ==
    IF cell.kind = "float" THEN Number(cell.number)
    ELSE IF cell.kind = "nan" THEN NotANumber
    ELSE Number(DigitsValue(Strip(cell.text)))

\* the VocabEntry appended for the row at index idx
EntryOfRow(row, idx) ==
    LET eo == Strip(Str(row.Esperanto))
    IN  [esperanto |-> eo,
         japanese |-> Strip(Str(row.Japanese_Trans)),
         unified_level |-> Float(row.Unified_Level),
         pos |-> classify_pos(eo),
         source_index |-> idx,
         audio_key |-> "None"]

\* load_vocab(csv_path): the list of entries, or the ValueError that float()
\* raised at the first row whose level is not a number
load_vocab(rows) ==
    LET bad == {i \in 1..Len(rows) : FloatRaises(rows[i].Unified_Level)}
    IN  IF bad # {}
        THEN [raised |-> TRUE, exception |-> "ValueError", value |-> <<>>]
        ELSE [raised |-> FALSE, exception |-> "None",
              value |-> Listed([i \in 1..Len(rows) |-> EntryOfRow(rows[i], i - 1)])]

(***************************************************************************)
(* split_by_level, even_chunks, build_sublevels                            *)
(*                                                                         *)
(* A list of VocabEntry is the list of their source_index values; the      *)
(* fields of an entry are read from the table entries.                     *)
(***************************************************************************)
LevelOfEntry(e) == entries[e + 1].unified_level

\* sorted() is list.sort() of CPython on a copy, comparing the keys with <.
\* A list of fewer than MIN_MERGE items is one run: count_run takes the longest
\* initial run that is strictly descending (and reverses it) or that never
\* descends, and binarysort inserts the items after it one by one by binary
\* search.  A longer list is cut into such runs, which are merged; when no key
\* is nan, < is a total preorder and the result is in both cases the stable
\* ascending order.  An order is the list of the 1-based input positions.
MIN_MERGE == 64

\* IFLT(*lo, *(lo-1)) at position i
Descends(keys, i) == FloatLess(keys[i], keys[i - 1])

\* count_run: the length of the initial run, for two items or more
RunLength(keys, descending) ==
    CHOOSE m \in 2..Len(keys) :
        /\ \A i \in 3..m : Descends(keys, i) = descending
        /\ m = Len(keys) \/ Descends(keys, m + 1) # descending

\* the order after count_run and reverse_slice
RunOrder(keys, n, descending) ==
    [i \in 1..Len(keys) |-> IF descending /\ i <= n THEN n + 1 - i ELSE i]

\* binarysort: the 0-based place of pivot in order[0 : start], searched in [l, r)
RECURSIVE BinarySearch(_, _, _, _, _)
BinarySearch(keys, order, pivot, l, r) ==
    IF l >= r THEN l
    ELSE IF FloatLess(keys[pivot], keys[order[l + (r - l) \div 2 + 1]])
         THEN BinarySearch(keys, order, pivot, l, l + (r - l) \div 2)
         ELSE BinarySearch(keys, order, pivot, l + (r - l) \div 2 + 1, r)

\* the item at 0-based place start moved to place l, those between shifted up
Inserted(order, start, l) ==
    Listed([i \in 1..Len(order) |->
                IF i <= l \/ i > start + 1 THEN order[i]
                ELSE IF i = l + 1 THEN order[start + 1]
                ELSE order[i - 1]])

\* binarysort: for (; start < hi; ++start)
RECURSIVE BinarySort(_, _, _)
BinarySort(keys, order, start) ==
    IF start >= Len(order) THEN order
    ELSE BinarySort(keys,
                    Inserted(order, start,
                             BinarySearch(keys, order, order[start + 1], 0, start)),
                    start + 1)

\* the order list.sort() gives a list of fewer than MIN_MERGE keys
ShortSortOrder(keys) ==
    IF Len(keys) < 2 THEN [i \in 1..Len(keys) |-> i]
    ELSE BinarySort(keys,
                    Listed(RunOrder(keys, RunLength(keys, Descends(keys, 2)),
                                    Descends(keys, 2))),
                    RunLength(keys, Descends(keys, 2)))

\* the position in the stable ascending order of each item
SortedPlaces(levels) ==
    Listed([a \in 1..Len(levels) |->
        1 + Cardinality({b \in 1..Len(levels) :
                            \/ levels[b].number < levels[a].number
                            \/ levels[b].number = levels[a].number /\ b < a})])

PlaceItems(items, places) ==
    Listed([k \in 1..Len(items) |-> items[CHOOSE a \in 1..Len(items) : places[a] = k]])

\* the items in the given order
OrderedItems(items, order) == Listed([k \in 1..Len(items) |-> items[order[k]]])

\* the keys of sorted(entries, key=lambda e: e.unified_level)
LevelKeys(items) == Listed([a \in 1..Len(items) |-> LevelOfEntry(items[a])])

\* sorted(entries, key=lambda e: e.unified_level)
SortedByLevel(items) ==
    IF Len(items) < MIN_MERGE
    THEN OrderedItems(items, ShortSortOrder(LevelKeys(items)))
    ELSE PlaceItems(items, SortedPlaces(LevelKeys(items)))

CutByCounts(sorted_entries, counts) ==
    LET beginner == counts[1]
        intermediate == counts[2]
    IN  [beginner |-> Slice(sorted_entries, 0, beginner),
         intermediate |-> Slice(sorted_entries, beginner, beginner + intermediate),
         advanced |-> Slice(sorted_entries, beginner + intermediate, Len(sorted_entries))]

\* a plausible slip: the items are shuffled with the stream before the stable sort,
\* so entries of equal level reach the cut in a seed-dependent order
split_by_level_shuffled(items) ==
    CutByCounts(SortedByLevel(Shuffle(items, rng).list),
                allocate_by_ratio(Len(items), LEVEL_WEIGHTS))

split_by_level(items) ==
    CutByCounts(SortedByLevel(items), allocate_by_ratio(Len(items), LEVEL_WEIGHTS))

MinOf(a, b) == IF a <= b THEN a ELSE b

\* a plausible slip: every chunk gets the base size and the last one the rest
even_chunks_rest_in_last(items, parts) ==
    IF parts <= 0 THEN <<items>>
    ELSE LET base == Len(items) \div parts
         IN  [i \in 1..parts |->
                 Slice(items, (i - 1) * base, IF i = parts THEN Len(items) ELSE i * base)]

even_chunks(items, parts) ==
    IF parts <= 0 THEN <<items>>
    ELSE LET base == Len(items) \div parts
             extra == Len(items) % parts
             \* cursor before chunk i (from 0) and the size of chunk i
             cursor(i) == i * base + MinOf(i, extra)
             size(i) == base + (IF i < extra THEN 1 ELSE 0)
         IN  [i \in 1..parts |-> Slice(items, cursor(i - 1), cursor(i - 1) + size(i - 1))]

STAGE_PARTS == << <<"beginner", 3>>, <<"intermediate", 3>>, <<"advanced", 6>> >>

\* a plausible slip: empty chunks are kept
keeps_empty_chunks(sublevel) == TRUE

\* if not chunk: continue
HasWords(sublevel) == sublevel.words # <<>>

\* the sub-levels of one stage: its chunks labelled from 1, the empty ones skipped
StageSublevels(stage, bucket, parts) ==
    LET sub_chunks == even_chunks(bucket, parts)
    IN  SelectSeq([idx \in 1..Len(sub_chunks) |->
                      [labels |-> <<stage \o "_" \o ToString(idx)>>,
                       words |-> sub_chunks[idx]]],
                  HasWords)

build_sublevels(buckets) ==
    StageSublevels(STAGE_PARTS[1][1], buckets.beginner, STAGE_PARTS[1][2])
        \o StageSublevels(STAGE_PARTS[2][1], buckets.intermediate, STAGE_PARTS[2][2])
        \o StageSublevels(STAGE_PARTS[3][1], buckets.advanced, STAGE_PARTS[3][2])

(***************************************************************************)
(* build_groups                                                            *)
(***************************************************************************)
\* a plausible slip: the two pronoun tags are kept apart
combined_pos_kept_apart(pos) == pos

\* COMBINED_POS.get(entry.pos, entry.pos)
COMBINED_POS(pos) == IF pos \in {"personal_pronoun", "pronoun"} THEN "pronoun" ELSE pos

\* by_pos.setdefault(pos_key, []).append(entry) over the entries in order: the keys
\* in the order of their first entry, each with its entries in row order
GroupByPos(table) ==
    LET keys == Listed([i \in 1..Len(table) |-> COMBINED_POS(table[i].pos)])
        rowNumbers == [i \in 1..Len(table) |-> i]
        IsFirst(i) == \A j \in 1..(i - 1) : keys[j] # keys[i]
        firsts == SelectSeq(rowNumbers, IsFirst)
    IN  Listed([k \in 1..Len(firsts) |->
            LET HasKey(i) == keys[i] = keys[firsts[k]]
                rowsOfKey == SelectSeq(rowNumbers, HasKey)
            IN  [pos |-> keys[firsts[k]],
                 items |-> [a \in 1..Len(rowsOfKey) |-> table[rowsOfKey[a]].source_index]]])

(***************************************************************************)
(* The vocabulary files of the model: a number of rows, the words cycling  *)
(* through a word list and the levels following a pattern.                 *)
(***************************************************************************)
MaxRows == 42         \* files of 0..MaxRows rows
BigRows == 111        \* and one large file, whose buckets reach the 40-word branch

WORD_CYCLES ==
    { << <<"b", "i", "r", "d", "o">> >>,
      << <<"b", "i", "r", "d", "o">>, <<"m", "i">>, <<" ", "B", "e", "l", "a">>,
         <<"h", "u", "n", "d", "o", "j">>, <<"s", "i">> >> }

LEVEL_PATTERNS == {"rising", "falling", "tied"}

\* the level of row i (from 0) of a file of n rows
PatternLevel(pattern, i, n) ==
    IF pattern = "rising" THEN i + 1
    ELSE IF pattern = "falling" THEN n - i
    ELSE IF pattern = "folded" THEN (n - i) \div 3
    ELSE i \div 4

\* a file whose level column holds a text that is no number: the column is
\* then read as str throughout
FileWithTextLevel ==
    << [Esperanto |-> TextCell(<<"b", "i", "r", "d", "o">>),
        Japanese_Trans |-> TextCell(<<"j", "a">>),
        Unified_Level |-> TextCell(<<"1">>)],
       [Esperanto |-> TextCell(<<"m", "i">>),
        Japanese_Trans |-> TextCell(<<"j", "a">>),
        Unified_Level |-> TextCell(<<"a", "b", "c">>)] >>

VocabularyFile(n, cycle, pattern) ==
    [i \in 1..n |->
        [Esperanto |-> TextCell(cycle[((i - 1) % Len(cycle)) + 1]),
         Japanese_Trans |-> TextCell(<<"j", "a">>),
         Unified_Level |-> NumberCell(PatternLevel(pattern, i - 1, n))]]

\* a file of 40 nouns with levels 1..40, but for 30 in row 19 and an empty level
\* cell in row 20
FileWithEmptyLevel ==
    [i \in 1..40 |->
        [Esperanto |-> TextCell(<<"b", "i", "r", "d", "o">>),
         Japanese_Trans |-> TextCell(<<"j", "a">>),
         Unified_Level |-> IF i = 20 THEN NaN ELSE NumberCell(IF i = 19 THEN 30 ELSE i)]]

\* the file of the documented scenario: 245 rows, every word a noun, levels 1..245
ScenarioFile == VocabularyFile(245, << <<"b", "i", "r", "d", "o">> >>, "rising")

\* a large file of nouns and personal pronouns in turn, with tied levels: both
\* buckets are merged across stages and end in a bucket that is split
TwoTagFile == VocabularyFile(BigRows, << <<"b", "i", "r", "d", "o">>, <<"m", "i">> >>, "tied")

Init ==
    /\ call = NoCall
    /\ ret = NotReturned
    /\ csv \in {VocabularyFile(n, c, l) :
                    n \in (0..MaxRows) \cup {BigRows}, c \in WORD_CYCLES, l \in LEVEL_PATTERNS}
               \cup {FileWithTextLevel, FileWithEmptyLevel, ScenarioFile, TwoTagFile}
    /\ seeds \in {<<a, b>> : a \in 1..MaxSeed, b \in 1..MaxSeed}
                 \cup {<<a, -a>> : a \in 1..MaxSeed}
    /\ run = 1
    /\ pc = "idle"
    /\ rng = 0
    /\ entries = <<>>
    /\ by_pos = <<>>
    /\ pos_i = 1
    /\ merged = <<>>
    /\ merged_i = 1
    /\ groups = <<>>
    /\ results = <<>>

\* build_groups(csv_path, seed=seeds[run]) is called: the stream is seeded, the
\* file loaded and the entries put into by_pos
BuildGroupsStart ==
    /\ pc = "idle"
    /\ run <= Len(seeds)
    /\ ~load_vocab(csv).raised
    /\ rng' = RandomSeed(seeds[run])
    /\ entries' = load_vocab(csv).value
    /\ groups' = <<>>
    /\ by_pos' = GroupByPos(entries')
    /\ pos_i' = 1
    /\ merged' = <<>>
    /\ merged_i' = 1
    /\ pc' = "pos_loop"
    /\ UNCHANGED <<call, ret, csv, seeds, run, results>>

\* build_groups(csv_path, seed=seeds[run]) is called and load_vocab raises: the
\* exception leaves build_groups, which returns no groups
BuildGroupsRaise ==
    /\ pc = "idle"
    /\ run <= Len(seeds)
    /\ load_vocab(csv).raised
    /\ rng' = RandomSeed(seeds[run])
    /\ pc' = load_vocab(csv).exception
    /\ UNCHANGED <<call, ret, csv, seeds, run, entries, by_pos, pos_i, merged, merged_i,
                   groups, results>>

\* for pos, items in by_pos.items(): level_buckets, sublevels, merged
StratifyPos ==
    /\ pc = "pos_loop"
    /\ pos_i <= Len(by_pos)
    /\ merged' = merge_small_sublevels(build_sublevels(split_by_level(by_pos[pos_i].items)))
    /\ merged_i' = 1
    /\ pc' = "merged_loop"
    /\ UNCHANGED <<call, ret, csv, seeds, run, rng, entries, by_pos, pos_i, groups, results>>

\* for labels, words in merged: groups.extend(split_into_groups(labels, words, pos, rng))
SplitSublevel ==
    /\ pc = "merged_loop"
    /\ merged_i <= Len(merged)
    /\ LET out == split_into_groups(merged[merged_i].labels, merged[merged_i].words,
                                    by_pos[pos_i].pos, rng)
       IN  /\ groups' = groups \o out.groups
           /\ rng' = out.rng
           /\ merged' = [merged EXCEPT ![merged_i].words = out.words]
    /\ merged_i' = merged_i + 1
    /\ IF merged_i = Len(merged)
       THEN pc' = "pos_loop" /\ pos_i' = pos_i + 1
       ELSE pc' = "merged_loop" /\ pos_i' = pos_i
    /\ UNCHANGED <<call, ret, csv, seeds, run, entries, by_pos, results>>

\* return groups
BuildGroupsReturn ==
    /\ pc = "pos_loop"
    /\ pos_i > Len(by_pos)
    /\ results' = Append(results, groups)
    /\ run' = run + 1
    /\ pc' = "idle"
    /\ UNCHANGED <<call, ret, csv, seeds, rng, entries, by_pos, pos_i, merged, merged_i,
                   groups>>

Next ==
    \/ BuildGroupsStart
    \/ BuildGroupsRaise
    \/ StratifyPos
    \/ SplitSublevel
    \/ BuildGroupsReturn

Spec == Init /\ [][Next]_vars


(***************************************************************************)
(* Specification of split_by_level and build_sublevels alone.              *)
(* split_by_level is called on the entries of a file of nouns, all of them *)
(* or every second one, with rising, falling, tied or folded levels, or of *)
(* the file with an empty level cell;                                      *)
(* build_sublevels on three buckets of consecutive entries.                *)
(***************************************************************************)
MaxLevelRows == 30     \* rows of the file split_by_level is tried on
MaxStageWords == 5     \* words in the beginner and in the intermediate bucket
MaxAdvancedWords == 9  \* words in the advanced bucket

\* every entry of a file of n rows, or every second one
ItemLists(n) ==
    {[i \in 1..n |-> i - 1], [i \in 1..((n + 1) \div 2) |-> 2 * (i - 1)]}

\* three buckets of b, i and a consecutive entries
BucketsOfSizes(b, i, a) ==
    [beginner |-> [k \in 1..b |-> k - 1],
     intermediate |-> [k \in 1..i |-> b + k - 1],
     advanced |-> [k \in 1..a |-> b + i + k - 1]]

ParkedBuild ==
    /\ seeds = <<>> /\ run = 1 /\ pc = "idle" /\ rng = 0
    /\ by_pos = <<>> /\ pos_i = 1 /\ merged = <<>> /\ merged_i = 1
    /\ groups = <<>> /\ results = <<>>

InitStratify ==
    /\ \/ /\ csv \in {VocabularyFile(n, << <<"b", "i", "r", "d", "o">> >>, l) :
                        n \in 0..MaxLevelRows, l \in LEVEL_PATTERNS \cup {"folded"}}
                     \cup {FileWithEmptyLevel}
          /\ entries = load_vocab(csv).value
          /\ call \in {[fn |-> "split_by_level", items |-> x] : x \in ItemLists(Len(csv))}
       \/ /\ csv = <<>>
          /\ entries = <<>>
          /\ call \in {[fn |-> "build_sublevels", buckets |-> BucketsOfSizes(b, i, a)] :
                          b \in 0..MaxStageWords, i \in 0..MaxStageWords,
                          a \in 0..MaxAdvancedWords}
    /\ ret = NotReturned
    /\ ParkedBuild

CallSplitByLevel ==
    /\ call.fn = "split_by_level"
    /\ ~ret.returned
    /\ ret' = [returned |-> TRUE, value |-> split_by_level(call.items)]
    /\ UNCHANGED call
    /\ UNCHANGED buildVars

CallBuildSublevels ==
    /\ call.fn = "build_sublevels"
    /\ ~ret.returned
    /\ ret' = [returned |-> TRUE, value |-> build_sublevels(call.buckets)]
    /\ UNCHANGED call
    /\ UNCHANGED buildVars

NextStratify ==
    \/ CallSplitByLevel
    \/ CallBuildSublevels

SpecStratify == InitStratify /\ [][NextStratify]_vars

SplitByLevelReturned == call.fn = "split_by_level" /\ ret.returned

BuildSublevelsReturned == call.fn = "build_sublevels" /\ ret.returned

\* the place of entry e in the list items
PlaceIn(items, e) == CHOOSE a \in 1..Len(items) : items[a] = e

\* C23 (as claimed): split_by_level sorts the entries by level ascending,
\* entries of equal level keeping their input order, and cuts the sorted list
\* into the runs beginner, intermediate, advanced whose lengths are
\* allocate_by_ratio(n, [55, 65, 120]); so levels never decrease from one run
\* to the next and the three runs together hold each entry exactly once.
C23_Stratification ==
    SplitByLevelReturned =>
        LET items == call.items
            n == Len(items)
            b == ret.value.beginner
            i == ret.value.intermediate
            a == ret.value.advanced
            sorted_entries == b \o i \o a
        IN  /\ <<Len(b), Len(i), Len(a)>> = allocate_by_ratio(n, <<55, 65, 120>>)
            /\ Len(sorted_entries) = n
            /\ \A x \in 1..n : \E y \in 1..n : sorted_entries[y] = items[x]
            /\ \A x, y \in 1..n :
                    x < y =>
                        \/ FloatLess(LevelOfEntry(sorted_entries[x]),
                                     LevelOfEntry(sorted_entries[y]))
                        \/ /\ FloatEqual(LevelOfEntry(sorted_entries[x]),
                                          LevelOfEntry(sorted_entries[y]))
                           /\ PlaceIn(items, sorted_entries[x]) < PlaceIn(items, sorted_entries[y])
            /\ \A x \in 1..Len(b) : \A y \in 1..Len(i) :
                    FloatAtMost(LevelOfEntry(b[x]), LevelOfEntry(i[y]))
            /\ \A x \in 1..Len(i) : \A y \in 1..Len(a) :
                    FloatAtMost(LevelOfEntry(i[x]), LevelOfEntry(a[y]))

\* the words of the sub-levels k in from..(from + count - 1) of subs, in order
WordsOfRun(subs, from, count) ==
    Flatten([k \in 1..count |-> subs[from + k - 1].words])

\* the sub-levels from..(from + count - 1) of subs are the chunks of bucket
\* under the labels stage_1, stage_2, ...: none empty, sizes never growing and
\* at most 1 apart, as many as parts unless the bucket has too few words
IsStageRun(subs, from, count, stage, bucket, parts) ==
    /\ count = MinOf(parts, Len(bucket))
    /\ \A k \in 1..count :
            /\ subs[from + k - 1].labels = <<stage \o "_" \o ToString(k)>>
            /\ Len(subs[from + k - 1].words) >= 1
            /\ Len(subs[from + k - 1].words) <= Len(subs[from].words)
            /\ Len(subs[from + k - 1].words) >= Len(subs[from].words) - 1
            /\ k > 1 => Len(subs[from + k - 1].words) <= Len(subs[from + k - 2].words)
    /\ count < parts => \A k \in 1..count : Len(subs[from + k - 1].words) = 1
    /\ WordsOfRun(subs, from, count) = bucket

\* C24: build_sublevels cuts beginner into 3, intermediate into 3 and advanced
\* into 6 contiguous chunks whose sizes within a stage differ by at most 1, the
\* larger ones first, drops the empty chunks, labels the others "{stage}_{i}"
\* with i = 1, 2, ... without gaps and returns them in the order beginner,
\* intermediate, advanced; no returned sub-level is empty.
C24_SublevelSubdivision ==
    BuildSublevelsReturned =>
        LET subs == ret.value
            b == MinOf(3, Len(call.buckets.beginner))
            i == MinOf(3, Len(call.buckets.intermediate))
            a == MinOf(6, Len(call.buckets.advanced))
        IN  /\ Len(subs) = b + i + a
            /\ IsStageRun(subs, 1, b, "beginner", call.buckets.beginner, 3)
            /\ IsStageRun(subs, b + 1, i, "intermediate", call.buckets.intermediate, 3)
            /\ IsStageRun(subs, b + i + 1, a, "advanced", call.buckets.advanced, 6)

\* a stage with fewer words than chunks lost its empty chunks, another one was
\* cut into chunks of two sizes
C24_Witness ==
    /\ BuildSublevelsReturned
    /\ Len(call.buckets.beginner) = 2
    /\ Len(call.buckets.intermediate) = 4
    /\ Len(call.buckets.advanced) = 8
    /\ Len(ret.value) = 11
    /\ ret.value[3].labels = <<"intermediate_1">>
    /\ Len(ret.value[3].words) = 2
    /\ Len(ret.value[8].words) = 1

(***************************************************************************)
(* Properties of build_groups.                                             *)
(***************************************************************************)
\* the (part of speech, stage labels) pairs of the groups holding source_index idx
AssignmentOf(gs, idx) ==
    {<<gs[k].pos, gs[k].stages>> :
        k \in {m \in 1..Len(gs) : \E a \in 1..Len(gs[m].entries) : gs[m].entries[a] = idx}}

\* how many times source_index idx occurs in the groups gs
Occurrences(gs, idx) ==
    Cardinality(UNION {{<<k, a>> : a \in {b \in 1..Len(gs[k].entries) : gs[k].entries[b] = idx}} :
                        k \in 1..Len(gs)})

\* the groups of gs with the part of speech and stage labels of group k
SameCombination(gs, k) ==
    {m \in 1..Len(gs) : gs[m].pos = gs[k].pos /\ gs[m].stages = gs[k].stages}

\* C1: the sizes of the groups returned by build_groups sum to the number of
\* input rows, and every source_index 0..n-1 appears in exactly one group,
\* exactly once, whatever the seed.
C1_Conservation ==
    \A r \in 1..Len(results) :
        LET gs == results[r]
            n == Len(csv)
        IN  /\ SumSeq([k \in 1..Len(gs) |-> gs[k].size]) = n
            /\ \A k \in 1..Len(gs) : gs[k].size = Len(gs[k].entries)
            /\ \A idx \in 0..(n - 1) : Occurrences(gs, idx) = 1

\* the large file with several parts of speech has been grouped into several groups
C1_Witness ==
    /\ Len(results) >= 1
    /\ Len(csv) = BigRows
    /\ Len(results[1]) >= 4
    /\ \E k \in 1..Len(results[1]) : results[1][k].pos = "pronoun"
    /\ \E k \in 1..Len(results[1]) : results[1][k].pos = "noun" /\ results[1][k].size >= MIN_WORDS

C4_SeedInvariantAssignment ==
    Len(results) = 2 =>
        \A idx \in 0..(Len(csv) - 1) :
            /\ AssignmentOf(results[1], idx) = AssignmentOf(results[2], idx)
            /\ Cardinality(AssignmentOf(results[1], idx)) = 1

\* two runs with different seeds on a file with equal levels gave different groups
C4_Witness ==
    /\ Len(results) = 2
    /\ seeds[1] # seeds[2]
    /\ Len(csv) >= MaxRows
    /\ \E i \in 1..(Len(csv) - 1) : csv[i].Unified_Level = csv[i + 1].Unified_Level
    /\ results[1] # results[2]
    /\ Len(results[1]) >= 2


SomeBucketSplit(gs) ==
    \E k \in 1..Len(gs) : Cardinality(SameCombination(gs, k)) > 1

\* C20 (as claimed): when the input is large enough that some bucket is split
\* into more than one group, build_groups with two different seeds returns
\* outputs that differ in the membership or the entry order of some group.
C20_SeedSensitivity ==
    Len(results) = 2 /\ seeds[1] # seeds[2] /\ SomeBucketSplit(results[1]) =>
        \E k \in 1..Len(results[1]) :
            \/ k > Len(results[2])
            \/ results[1][k].entries # results[2][k].entries

\* the tags that build_groups puts into one bucket
PRONOUN_TAGS == {"personal_pronoun", "pronoun"}

\* the groups of gs holding an entry whose classification is in tags
GroupsHolding(gs, tags) ==
    {k \in 1..Len(gs) : \E a \in 1..Len(gs[k].entries) :
                            entries[gs[k].entries[a] + 1].pos \in tags}

\* C21: entries classified personal_pronoun and entries classified pronoun go
\* through stratification, merge and partition as one bucket: every group
\* holding such an entry has part of speech "pronoun" and holds nothing else,
\* the groups of part of speech "pronoun" hold each such entry and have one
\* numbering per stage-label list (pairwise different ids), and no group in the
\* output of build_groups has part of speech "personal_pronoun".
C21_PronounMerge ==
    \A r \in 1..Len(results) :
        LET gs == results[r]
            pronounGroups == {k \in 1..Len(gs) : gs[k].pos = "pronoun"}
        IN  /\ \A k \in 1..Len(gs) : gs[k].pos # "personal_pronoun"
            /\ GroupsHolding(gs, PRONOUN_TAGS) \subseteq pronounGroups
            /\ \A k \in pronounGroups : \A a \in 1..Len(gs[k].entries) :
                    entries[gs[k].entries[a] + 1].pos \in PRONOUN_TAGS
            /\ \A k, m \in pronounGroups : k # m => gs[k].id # gs[m].id
            /\ \A k, m \in pronounGroups :
                    gs[k].stages # gs[m].stages =>
                        \A a \in 1..Len(gs[k].stages) : \A b \in 1..Len(gs[m].stages) :
                            gs[k].stages[a] # gs[m].stages[b]

\* a returned group holds a personal pronoun and another pronoun side by side
C21_Witness ==
    /\ Len(results) >= 1
    /\ \E k \in 1..Len(results[1]) :
            /\ k \in GroupsHolding(results[1], {"personal_pronoun"})
            /\ k \in GroupsHolding(results[1], {"pronoun"})
            /\ results[1][k].pos = "pronoun"

RECURSIVE StagesJoined(_)
\* the stage labels written one after the other with "+" between them
StagesJoined(labels) ==
    IF Len(labels) = 0 THEN ""
    ELSE IF Len(labels) = 1 THEN labels[1]
    ELSE StagesJoined(SubSeq(labels, 1, Len(labels) - 1)) \o "+" \o labels[Len(labels)]

\* the position of group k among the groups of gs with its part of speech and
\* stage labels, counted from 1
RankInCombination(gs, k) ==
    Cardinality({m \in SameCombination(gs, k) : m <= k})

\* C22: every group id has the form "{pos}:{stage labels joined by '+'}:g{i}"
\* with i running from 1 within its (part of speech, stage labels) set, and no
\* two groups in the output of one build_groups call share an id.
C22_GroupIdentity ==
    \A r \in 1..Len(results) :
        LET gs == results[r]
        IN  /\ \A k \in 1..Len(gs) :
                    gs[k].id = gs[k].pos \o ":" \o StagesJoined(gs[k].stages) \o ":g"
                                   \o ToString(RankInCombination(gs, k))
            /\ \A k, m \in 1..Len(gs) : k # m => gs[k].id # gs[m].id

\* an output with several parts of speech, a merged stage-label list and a
\* bucket split into several groups
C22_Witness ==
    /\ Len(results) >= 1
    /\ \E k, m \in 1..Len(results[1]) : results[1][k].pos # results[1][m].pos
    /\ \E k \in 1..Len(results[1]) : Len(results[1][k].stages) >= 2
    /\ \E k \in 1..Len(results[1]) : RankInCombination(results[1], k) >= 2

\* the place of a label in the order beginner_1, ..., advanced_6
LabelPlace(label) == CHOOSE p \in 1..Len(STAGE_LABELS) : STAGE_LABELS[p] = label

\* the entries of the groups of gs with the given part of speech and stage labels
EntriesOfCombination(gs, pos, labels) ==
    UNION {Range(gs[k].entries) : k \in {m \in 1..Len(gs) : gs[m].pos = pos /\ gs[m].stages = labels}}

\* the groups made so far from the merged sub-levels 1..upto of part of speech
\* pos hold the words of their sub-level and no others
WithinSublevels(pos, upto) ==
    \A j \in 1..upto :
        EntriesOfCombination(groups, pos, merged[j].labels) = Range(merged[j].words)

\* C30 (as claimed): in the output of build_groups, for any two groups of the
\* same part of speech with different stage-label lists, every entry of the
\* group whose labels come earlier in the order beginner_1.. intermediate_1..
\* advanced_1.. has a difficulty level <= every entry of the other group;
\* shuffling never moves an entry across a merged sub-level boundary.
C30_DifficultyOrder ==
    /\ \A r \in 1..Len(results) :
          LET gs == results[r]
          IN  \A k, m \in 1..Len(gs) :
                  /\ gs[k].pos = gs[m].pos
                  /\ gs[k].stages # gs[m].stages
                  /\ LabelPlace(gs[k].stages[1]) < LabelPlace(gs[m].stages[1])
                  => \A a \in 1..Len(gs[k].entries) : \A b \in 1..Len(gs[m].entries) :
                          FloatAtMost(LevelOfEntry(gs[k].entries[a]),
                                      LevelOfEntry(gs[m].entries[b]))
    /\ pc = "merged_loop" => WithinSublevels(by_pos[pos_i].pos, merged_i - 1)
    /\ pc = "pos_loop" /\ pos_i > 1 => WithinSublevels(by_pos[pos_i - 1].pos, Len(merged))

(***************************************************************************)
(* build_questions_for_group                                               *)
(*                                                                         *)
(* random.sample(population, k) of the standard library, for 0 <= k <= n:  *)
(*     setsize = 21;  if k > 5: setsize += 4 ** ceil(log(k * 3, 4))        *)
(*     if n <= setsize: pool = list(population)                            *)
(*         for i in range(k): j = randbelow(n - i); result[i] = pool[j]    *)
(*                            pool[j] = pool[n - i - 1]                    *)
(*     else: selected = set()                                              *)
(*         for i in range(k): j = randbelow(n)                             *)
(*                            while j in selected: j = randbelow(n)        *)
(*                            selected.add(j); result[i] = population[j]   *)
(* option_size lies in 0..len(pool) whenever max_options >= 1, so the      *)
(* ValueError of sample for a k outside 0..n does not arise.               *)
(***************************************************************************)
RECURSIVE PowerOf4AtLeast(_)
PowerOf4AtLeast(m) == IF m <= 1 THEN 1 ELSE 4 * PowerOf4AtLeast((m + 3) \div 4)

SetSize(k) == IF k > 5 THEN 21 + PowerOf4AtLeast(3 * k) ELSE 21

\* the branch of sample that selects from a shrinking copy of the population
RECURSIVE SamplePool(_, _, _, _, _)
SamplePool(pool, i, k, stream, result) ==
    IF i = k THEN [list |-> result, rng |-> stream]
    ELSE LET n == Len(pool)
             j == RandBelow(stream, 1, n - i)
         IN  SamplePool([pool EXCEPT ![j + 1] = pool[n - i]], i + 1, k,
                        StateAfter(stream, 1), Append(result, pool[j + 1]))

\* j = randbelow(n); while j in selected: j = randbelow(n)
RECURSIVE DrawUnselected(_, _, _)
DrawUnselected(n, selected, stream) ==
    LET j == RandBelow(stream, 1, n)
    IN  IF j \in selected THEN DrawUnselected(n, selected, StateAfter(stream, 1))
        ELSE [j |-> j, rng |-> StateAfter(stream, 1)]

\* the branch of sample that remembers the selected positions
RECURSIVE SampleSet(_, _, _, _, _, _)
SampleSet(population, i, k, stream, selected, result) ==
    IF i = k THEN [list |-> result, rng |-> stream]
    ELSE LET draw == DrawUnselected(Len(population), selected, stream)
         IN  SampleSet(population, i + 1, k, draw.rng, selected \cup {draw.j},
                       Append(result, population[draw.j + 1]))

\* rng.sample(population, k)
Sample(population, k, stream) ==
    IF Len(population) <= SetSize(k)
    THEN SamplePool(population, 0, k, stream, <<>>)
    ELSE SampleSet(population, 0, k, stream, {}, <<>>)

\* a plausible slip: the correct entry is not taken out of the pool
pool_with_correct(group_entries, correct) == group_entries

\* pool = [e for e in group.entries if e is not correct]
PoolOf(group_entries, correct) == SelectSeq(group_entries, LAMBDA e : e # correct)

\* a plausible slip: max_options distractors, one option too many
option_size_one_more(max_options, pool) == MinOf(max_options, Len(pool))

\* option_size = min(max_options - 1, len(pool))
OptionSize(max_options, pool) == MinOf(max_options - 1, Len(pool))

\* options.index(correct), a Python index
IndexOf(options, correct) ==
    (CHOOSE p \in 1..Len(options) :
        /\ options[p] = correct
        /\ \A q \in 1..(p - 1) : options[q] # correct) - 1

\* the dict of one option
OptionDict(opt) ==
    [japanese |-> entries[opt + 1].japanese,
     esperanto |-> entries[opt + 1].esperanto,
     audio_key |-> entries[opt + 1].audio_key]

\* questions.append({...}) once options is shuffled: the question appended,
\* the list options, the entry correct and the stream after the pass
QuestionRecord(group, correct, shuffled) ==
    [question |->
        [group_id |-> group.id,
         pos |-> group.pos,
         stages |-> group.stages,
         prompt |-> entries[correct + 1].esperanto,
         answer_index |-> IndexOf(shuffled.list, correct),
         options |-> [p \in 1..Len(shuffled.list) |-> OptionDict(shuffled.list[p])]],
     options |-> shuffled.list,
     correct |-> correct,
     rng |-> shuffled.rng]

\* options = wrong + [correct]; rng.shuffle(options)
ShuffledOptions(wrong, correct) ==
    LET shuffled == Shuffle(wrong.list \o <<correct>>, wrong.rng)
    IN  [list |-> Listed(shuffled.list), rng |-> shuffled.rng]

\* wrong = rng.sample(pool, option_size)
Distractors(pool, stream, max_options) == Sample(pool, OptionSize(max_options, pool), stream)

\* one pass of the loop "for correct in entries"
QuestionOf(group, correct, stream, max_options) ==
    QuestionRecord(group, correct,
        ShuffledOptions(Distractors(PoolOf(group.entries, correct), stream, max_options),
                        correct))

OnePass(q) == [passes |-> <<q>>, rng |-> q.rng]

JoinPasses(first, second) == [passes |-> first.passes \o second.passes, rng |-> second.rng]

\* the passes lo..hi of the loop over the shuffled entries: what each pass
\* produced, in order, and the stream after the last of them
RECURSIVE QuestionsFrom(_, _, _, _, _, _)
RECURSIVE QuestionsAfter(_, _, _, _, _, _)
QuestionsFrom(group, order, lo, hi, stream, max_options) ==
    IF lo > hi THEN [passes |-> <<>>, rng |-> stream]
    ELSE IF lo = hi THEN OnePass(QuestionOf(group, order[lo], stream, max_options))
    ELSE QuestionsAfter(group, order, (lo + hi) \div 2, hi,
                        QuestionsFrom(group, order, lo, (lo + hi) \div 2, stream,
                                      max_options),
                        max_options)

\* the passes up to hi, given what the passes up to mid produced
QuestionsAfter(group, order, mid, hi, first, max_options) ==
    JoinPasses(first, QuestionsFrom(group, order, mid + 1, hi, first.rng, max_options))

\* a plausible slip: the correct entry of each question is drawn independently,
\* as build_question does with rng.choice, instead of walking a shuffled copy
presentation_order_by_choice(group_entries, stream) ==
    LET n == Len(group_entries)
    IN  [list |-> [p \in 1..n |-> group_entries[RandBelow(stream, p, n) + 1]],
         rng |-> StateAfter(stream, n),
         group_entries |-> group_entries]

\* the local list entries, the stream and the group's own list after a shuffle
Presented(shuffled, group_entries) ==
    [list |-> shuffled.list, rng |-> shuffled.rng, group_entries |-> group_entries]

\* a plausible slip: no copy is taken, the group's own list is shuffled
presentation_order_in_place(group_entries, stream) ==
    Presented(Shuffle(group_entries, stream), Shuffle(group_entries, stream).list)

\* entries = list(group.entries); rng.shuffle(entries): the copy is shuffled,
\* the group's own list stays as it was
PresentationOrder(group_entries, stream) ==
    Presented(Shuffle(group_entries, stream), group_entries)

\* the group with its entry list as the call leaves it
GroupHolding(group, group_entries) == [group EXCEPT !.entries = group_entries]

\* what the call leaves: the passes of its loop, the stream and the group
Outcome(out, group) == [passes |-> out.passes, rng |-> out.rng, group |-> group]

\* for correct in entries: ..., entries being the shuffled copy
QuestionsInOrder(group, order, max_options) ==
    Outcome(QuestionsFrom(GroupHolding(group, order.group_entries), Listed(order.list), 1,
                          Len(group.entries), order.rng, max_options),
            GroupHolding(group, order.group_entries))

\* a plausible slip: no early return for a group below min_options
build_questions_without_guard(group, stream, min_options, max_options) ==
    QuestionsInOrder(group, PresentationOrder(group.entries, stream), max_options)

build_questions_for_group(group, stream, min_options, max_options) ==
    IF Len(group.entries) < min_options
    THEN [passes |-> <<>>, rng |-> stream, group |-> group]
    ELSE QuestionsInOrder(group, PresentationOrder(group.entries, stream), max_options)

(***************************************************************************)
(* Specification of build_questions_for_group alone: a group holding all   *)
(* the entries of a small vocabulary, whose words are pairwise different   *)
(* or repeat, a stream in some state, and the two option limits.           *)
(***************************************************************************)
MaxGroup == 5         \* groups of 0..MaxGroup entries
BigGroup == 24        \* and one group whose pool exceeds the small-population branch of sample
MaxStream == 15        \* the stream passed in is in one of the states 0..MaxStream
MaxMinOptions == 3    \* min_options in 0..MaxMinOptions
MaxMaxOptions == 5    \* max_options in 1..MaxMaxOptions

LETTERS ==
    <<"a", "b", "c", "d", "e", "f", "g", "h", "i", "j", "k", "l", "m",
      "n", "o", "p", "r", "s", "t", "u", "v", "z">>

WORD_PATTERNS == {"distinct", "repeated"}

\* the word of row i (from 0): a different noun in every row, or two nouns in turn
PatternWord(pattern, i) ==
    IF pattern = "distinct"
    THEN <<"b", "i", LETTERS[(i % Len(LETTERS)) + 1], LETTERS[((i \div Len(LETTERS)) % Len(LETTERS)) + 1], "o">>
    ELSE <<"b", "i", LETTERS[(i % 2) + 1], "a", "o">>

QuestionFile(n, pattern) ==
    [i \in 1..n |->
        [Esperanto |-> TextCell(PatternWord(pattern, i - 1)),
         Japanese_Trans |-> TextCell(<<"j", "a">>),
         Unified_Level |-> NumberCell(i)]]

\* a Group holding the entries with source_index 0..n-1
GroupOfAll(n) ==
    [id |-> "noun:beginner_1:g1", pos |-> "noun", stages |-> <<"beginner_1">>,
     size |-> n, entries |-> [i \in 1..n |-> i - 1]]

InitQuestions ==
    /\ csv \in {QuestionFile(n, w) : n \in (0..MaxGroup) \cup {BigGroup}, w \in WORD_PATTERNS}
    /\ entries = load_vocab(csv).value
    /\ call \in {[fn |-> "build_questions_for_group", group |-> GroupOfAll(Len(csv)),
                   rng |-> s, min_options |-> a, max_options |-> b] :
                    s \in 0..MaxStream, a \in 0..MaxMinOptions, b \in 1..MaxMaxOptions}
    /\ ret = NotReturned
    /\ seeds = <<>> /\ run = 1 /\ pc = "idle" /\ rng = 0
    /\ by_pos = <<>> /\ pos_i = 1 /\ merged = <<>> /\ merged_i = 1
    /\ groups = <<>> /\ results = <<>>

\* ret.value is the list returned; ret.options and ret.correct are the list
\* options and the entry correct of each pass of the loop
Returned(passes) ==
    [returned |-> TRUE,
     value |-> [q \in 1..Len(passes) |-> passes[q].question],
     options |-> [q \in 1..Len(passes) |-> passes[q].options],
     correct |-> [q \in 1..Len(passes) |-> passes[q].correct]]

CallBuildQuestionsForGroup ==
    /\ call.fn = "build_questions_for_group"
    /\ ~ret.returned
    /\ LET out == build_questions_for_group(call.group, call.rng, call.min_options,
                                            call.max_options)
       IN  /\ ret' = Returned(Listed(out.passes))
           \* the stream and the group are the caller's objects
           /\ call' = [call EXCEPT !.rng = out.rng, !.group = out.group]
    /\ UNCHANGED buildVars

NextQuestions == CallBuildQuestionsForGroup

SpecQuestions == InitQuestions /\ [][NextQuestions]_vars

QuestionsReturned == call.fn = "build_questions_for_group" /\ ret.returned

\* C11: for a group with k >= min_options entries, build_questions_for_group
\* returns exactly k questions, and every entry of the group is the correct
\* answer (the prompt) of exactly one of them, whatever the random source does.
C11_QuestionCoverage ==
    QuestionsReturned /\ Len(call.group.entries) >= call.min_options =>
        LET k == Len(call.group.entries)
        IN  /\ Len(ret.value) = k
            /\ \A a \in 1..k :
                  Cardinality({q \in 1..Len(ret.value) :
                                  ret.correct[q] = call.group.entries[a]}) = 1
            /\ \A q \in 1..Len(ret.value) :
                  ret.value[q].prompt = entries[ret.correct[q] + 1].esperanto

\* the large group was asked with the default limits, in an order other than its own
C11_Witness ==
    /\ QuestionsReturned
    /\ Len(call.group.entries) = BigGroup
    /\ call.min_options = 2 /\ call.max_options = 4
    /\ Len(ret.value) = BigGroup
    /\ ret.correct # call.group.entries

\* C12: in every question returned for a group of size k >= 2, the option list
\* has exactly min(max_options, k) options, answer_index is a valid position
\* in it, and the option at answer_index is the prompt's entry, its text equal
\* to the prompt.
C12_OptionListShape ==
    QuestionsReturned /\ Len(call.group.entries) >= 2 =>
        \A q \in 1..Len(ret.value) :
            LET question == ret.value[q]
            IN  /\ Len(question.options) = MinOf(call.max_options, Len(call.group.entries))
                /\ Len(ret.options[q]) = Len(question.options)
                /\ question.answer_index \in 0..(Len(question.options) - 1)
                /\ ret.options[q][question.answer_index + 1] = ret.correct[q]
                /\ question.options[question.answer_index + 1].esperanto = question.prompt

\* questions of a group smaller than max_options, the answer not in the last place
C12_Witness ==
    /\ QuestionsReturned
    /\ Len(call.group.entries) = 3
    /\ call.max_options = 4
    /\ Len(ret.value) = 3
    /\ Len(ret.value[1].options) = 3
    /\ \E q \in 1..3 : ret.value[q].answer_index = 0
    /\ \E q \in 1..3 : ret.value[q].answer_index = 2

\* C13: every option of every question is an entry of the group passed in, the
\* distractors are pairwise different entries, and none of them is the correct
\* entry: the correct entry occurs exactly once among the options.
C13_NoCrossGroupLeakage ==
    QuestionsReturned =>
        \A q \in 1..Len(ret.value) :
            LET options == ret.options[q]
            IN  /\ \A p \in 1..Len(options) : options[p] \in Range(call.group.entries)
                /\ \A p1, p2 \in 1..Len(options) : options[p1] = options[p2] => p1 = p2
                /\ Cardinality({p \in 1..Len(options) : options[p] = ret.correct[q]}) = 1

\* four options were drawn from the large group, three of them distractors
C13_Witness ==
    /\ QuestionsReturned
    /\ Len(call.group.entries) = BigGroup
    /\ call.max_options = 4
    /\ Len(ret.value) = BigGroup
    /\ \A q \in 1..Len(ret.value) :
          Cardinality(Range(ret.options[q]) \ {ret.correct[q]}) = 3

\* C14: when the group has fewer than min_options entries,
\* build_questions_for_group returns the empty list and raises nothing (the
\* call returns, and it returns before the stream is drawn from).
C14_SmallGroupNotAnError ==
    QuestionsReturned /\ Len(call.group.entries) < call.min_options =>
        /\ ret.value = <<>>
        /\ call.rng \in 0..MaxStream

\* a group of one entry was passed with min_options = 2
C14_Witness ==
    /\ QuestionsReturned
    /\ Len(call.group.entries) = 1
    /\ call.min_options = 2
    /\ ret.value = <<>>

\* C15 (as claimed): for a group of k >= 2 different input rows, the k prompt
\* strings of the questions returned are pairwise distinct.
C15_DistinctPrompts ==
    QuestionsReturned /\ Len(call.group.entries) >= 2 =>
        \A q1, q2 \in 1..Len(ret.value) :
            ret.value[q1].prompt = ret.value[q2].prompt => q1 = q2

\* C27: after build_questions_for_group returns, with questions or with the
\* empty list, the group's entry list has the same entries in the same order
\* as before the call and its id, part of speech, stage labels and size are
\* unchanged; only a copy of the entry list is shuffled.
C27_GroupUnchanged ==
    QuestionsReturned =>
        /\ call.group.entries = [i \in 1..Len(csv) |-> i - 1]
        /\ call.group.id = GroupOfAll(Len(csv)).id
        /\ call.group.pos = GroupOfAll(Len(csv)).pos
        /\ call.group.stages = GroupOfAll(Len(csv)).stages
        /\ call.group.size = Len(csv)

\* questions were returned in an order other than that of the group's entries
C27_Witness ==
    /\ QuestionsReturned
    /\ Len(ret.value) >= 3
    /\ ret.correct # call.group.entries
    /\ call.group.entries = [i \in 1..Len(csv) |-> i - 1]

(***************************************************************************)
(* build_question: one question from a sequence of groups.                 *)
(*                                                                         *)
(* rng.choice(seq) of the standard library raises IndexError for an empty  *)
(* seq and is seq[randbelow(len(seq))] otherwise.                          *)
(***************************************************************************)
\* a plausible slip: every group is eligible
eligible_any_group(gs, min_options) == gs

\* eligible = [g for g in groups if len(g.entries) >= min_options]
Eligible(gs, min_options) == SelectSeq(gs, LAMBDA g : Len(g.entries) >= min_options)

\* rng.choice(seq) for a non-empty seq
Choice(seq, stream) ==
    [item |-> seq[RandBelow(stream, 1, Len(seq)) + 1], rng |-> StateAfter(stream, 1)]

\* return {...}: the question, with the list options and the entry correct
QuestionReturned(group, pass) ==
    [raised |-> FALSE, value |-> pass.question, options |-> pass.options,
     correct |-> pass.correct, rng |-> pass.rng]

\* correct = rng.choice(group.entries) and the rest of the function
QuestionInGroup(group, stream, max_options) ==
    IF group.entries = <<>>
    THEN [raised |-> TRUE, exception |-> "IndexError", rng |-> stream]
    ELSE QuestionReturned(group,
            QuestionOf(group, Choice(group.entries, stream).item,
                       Choice(group.entries, stream).rng, max_options))

\* group = rng.choice(eligible) and the rest of the function
QuestionAmong(eligible, stream, max_options) ==
    QuestionInGroup(Choice(eligible, stream).item, Choice(eligible, stream).rng, max_options)

build_question(gs, stream, min_options, max_options) ==
    IF Eligible(gs, min_options) = <<>>
    THEN [raised |-> TRUE, exception |-> "ValueError", rng |-> stream]
    ELSE QuestionAmong(Listed(Eligible(gs, min_options)), stream, max_options)

(***************************************************************************)
(* Specification of build_question alone: up to MaxGroups groups that      *)
(* share out the entries of a vocabulary of different nouns, a stream in   *)
(* some state, min_options >= 1 and max_options >= 1.                      *)
(***************************************************************************)
MaxGroups == 3        \* sequences of 0..MaxGroups groups
MaxPickStream == 5    \* stream states 0..MaxPickStream

GROUP_SIZES == {0, 1, 2, 4}

\* groups of the given sizes holding the entries 0, 1, 2, ... in order
GroupsOfSizes(sizes) ==
    [k \in 1..Len(sizes) |->
        [id |-> "noun:beginner_1:g" \o ToString(k), pos |-> "noun",
         stages |-> <<"beginner_1">>, size |-> sizes[k],
         entries |-> [i \in 1..sizes[k] |-> SumSeq(SubSeq(sizes, 1, k - 1)) + i - 1]]]

InitQuestion ==
    /\ \E sizes \in {<<>>} \cup SeqsUpTo(GROUP_SIZES, MaxGroups) :
          /\ csv = QuestionFile(SumSeq(sizes), "distinct")
          /\ call \in {[fn |-> "build_question", groups |-> GroupsOfSizes(sizes),
                         rng |-> s, min_options |-> a, max_options |-> b] :
                          s \in 0..MaxPickStream, a \in 1..MaxMinOptions,
                          b \in 1..MaxMaxOptions}
    /\ entries = load_vocab(csv).value
    /\ ret = NotReturned
    /\ ParkedBuild

CallBuildQuestion ==
    /\ call.fn = "build_question"
    /\ ~ret.returned
    /\ LET out == build_question(call.groups, call.rng, call.min_options, call.max_options)
       IN  /\ ret' = IF out.raised
                     THEN [returned |-> TRUE, raised |-> TRUE, exception |-> out.exception]
                     ELSE [returned |-> TRUE, raised |-> FALSE, value |-> out.value,
                           options |-> out.options, correct |-> out.correct]
           /\ call' = [call EXCEPT !.rng = out.rng]
    /\ UNCHANGED buildVars

NextQuestion == CallBuildQuestion

SpecQuestion == InitQuestion /\ [][NextQuestion]_vars

BuildQuestionReturned == call.fn = "build_question" /\ ret.returned

\* the groups of the call with at least min_options entries
EligibleGroups ==
    {k \in 1..Len(call.groups) : Len(call.groups[k].entries) >= call.min_options}

\* entry e is one of the entries of group
HeldBy(group, e) == \E a \in 1..Len(group.entries) : group.entries[a] = e

\* C28: build_question raises ValueError exactly when no group of the given
\* sequence has at least min_options entries; otherwise the question it
\* returns has its correct answer and all its distractors taken from one
\* single group that has at least min_options entries, with
\* min(max_options, size of that group) options.
C28_SingleQuestion ==
    BuildQuestionReturned =>
        /\ ret.raised <=> EligibleGroups = {}
        /\ ret.raised => ret.exception = "ValueError"
        /\ ~ret.raised =>
              \E k \in EligibleGroups :
                  /\ ret.value.group_id = call.groups[k].id
                  /\ HeldBy(call.groups[k], ret.correct)
                  /\ \A p \in 1..Len(ret.options) : HeldBy(call.groups[k], ret.options[p])
                  /\ Len(ret.options) = MinOf(call.max_options, Len(call.groups[k].entries))
                  /\ Len(ret.value.options) = Len(ret.options)
                  /\ ret.options[ret.value.answer_index + 1] = ret.correct
                  /\ \A p \in 1..Len(ret.options) :
                        p # ret.value.answer_index + 1 => ret.options[p] # ret.correct

\* a group too small was passed over: the question comes from a later group
\* and has distractors
C28_Witness ==
    /\ BuildQuestionReturned
    /\ ~ret.raised
    /\ Len(call.groups) = 3
    /\ 1 \notin EligibleGroups
    /\ Len(call.groups[1].entries) >= 1
    /\ ret.value.group_id = call.groups[3].id
    /\ Len(ret.options) >= 3

(***************************************************************************)
(* Specification of load_vocab alone: files of a few rows, any cell of     *)
(* which may be empty, and whose level column holds numbers or texts.      *)
(***************************************************************************)
MaxLoadRows == 2      \* load_vocab: files of 0..MaxLoadRows rows

WORD_CELLS == {TextCell(<<"b", "i", "r", "d", "o">>), TextCell(<<" ", "B", "e", "l", "a">>), NaN}
TRANSLATION_CELLS == {TextCell(<<"j", "a">>), NaN}
LEVEL_CELLS == {NumberCell(1), NaN, TextCell(<<"7">>), TextCell(<<"a", "b", "c">>)}

\* read_csv gives a column one type: the level cells are str exactly when one
\* of them is a text that is no number, and numbers otherwise
OneTypePerColumn(rows) ==
    LET texts == \E i \in 1..Len(rows) : FloatRaises(rows[i].Unified_Level)
    IN  \A i \in 1..Len(rows) :
            /\ rows[i].Unified_Level.kind = "float" => ~texts
            /\ rows[i].Unified_Level.kind = "str" => texts

LoadFiles ==
    {rows \in SeqsUpTo([Esperanto : WORD_CELLS, Japanese_Trans : TRANSLATION_CELLS,
                         Unified_Level : LEVEL_CELLS], MaxLoadRows) \cup {<<>>} :
        OneTypePerColumn(rows)}

InitLoad ==
    /\ call \in {[fn |-> "load_vocab", rows |-> rows] : rows \in LoadFiles}
    /\ ret = NotReturned
    /\ NoBuild

CallLoadVocab ==
    /\ call.fn = "load_vocab"
    /\ ~ret.returned
    /\ ret' = [returned |-> TRUE, value |-> load_vocab(call.rows)]
    /\ UNCHANGED <<call, buildVars>>

NextLoad == CallLoadVocab

SpecLoad == InitLoad /\ [][NextLoad]_vars

LoadReturned == call.fn = "load_vocab" /\ ret.returned

\* the row has no word text, no translation or no numeric level
LacksRequiredField(row) ==
    \/ row.Esperanto.kind = "nan"
    \/ row.Japanese_Trans.kind = "nan"
    \/ row.Unified_Level.kind = "nan"
    \/ FloatRaises(row.Unified_Level)

\* C16 (as claimed): when an input row lacks the word text, the translation or
\* the numeric level, the build fails with a DataValidationError; no entry is
\* created for such a row and nothing is returned.
C16_ValidationFailure ==
    LoadReturned /\ (\E i \in 1..Len(call.rows) : LacksRequiredField(call.rows[i])) =>
        /\ ret.value.raised
        /\ ret.value.exception = "DataValidationError"
        /\ ret.value.value = <<>>

(***************************************************************************)
(* Specification of classify_pos alone: the words of the documented        *)
(* examples, every word of the closed preposition, conjunction and         *)
(* bare-adverb sets, and some inflected and unnormalised forms.            *)
(***************************************************************************)
EXAMPLE_WORDS ==
    {<<"b", "i", "r", "d", "o">>, <<"b", "e", "l", "a">>, <<"k", "u", "r", "i">>,
     <<"k", "u", "r", "a", "s">>, <<"r", "a", "p", "i", "d", "e">>, <<"k", "i", "o">>,
     <<"k", "a", "j">>, <<"-", "e", "t", "-">>}

OTHER_WORDS ==
    {<<>>, <<" ">>, <<"b", "i", "r", "d", "o", "j", "n">>, <<" ", "B", "e", "l", "a", "j">>,
     <<"m", "a", "l", "-">>, <<"-", "a", "d">>, <<"m", "i">>, <<"o", "n", "i">>,
     <<"d", "u", "d", "e", "k">>, <<"4", "2">>, <<"k", "u", "r", "u">>, <<"h", "o">>,
     <<"t", "r", "a", "n", "s">>, <<"K", "A", "J">>, <<"CX", "e">>}

MaxWordLen == 3        \* every word of up to MaxWordLen characters of ENDING_LETTERS

\* the letters the suffix rule looks at, and one it does not
ENDING_LETTERS == {"a", "e", "i", "o", "u", "s", "j", "n", "t"}

SHORT_WORDS == SeqsUpTo(ENDING_LETTERS, MaxWordLen)

CLASSIFIED_WORDS ==
    EXAMPLE_WORDS \cup OTHER_WORDS \cup PREPOSITIONS \cup CONJUNCTIONS \cup BARE_ADVERBS
        \cup SHORT_WORDS

InitClassify ==
    /\ call \in {[fn |-> "classify_pos", word |-> w] : w \in CLASSIFIED_WORDS}
    /\ ret = NotReturned
    /\ NoBuild

CallClassifyPos ==
    /\ call.fn = "classify_pos"
    /\ ~ret.returned
    /\ ret' = [returned |-> TRUE, value |-> classify_pos(call.word)]
    /\ UNCHANGED <<call, buildVars>>

NextClassify == CallClassifyPos

SpecClassify == InitClassify /\ [][NextClassify]_vars

ClassifyReturned == call.fn = "classify_pos" /\ ret.returned

\* C17: classify_pos returns noun for "birdo", adjective for "bela", verb for
\* "kuri" and "kuras", adverb for "rapide", correlative for "kio", conjunction
\* for "kaj" and suffix for "-et-".
C17_ClassifierSpotChecks ==
    ClassifyReturned =>
        /\ (call.word = <<"b", "i", "r", "d", "o">> => ret.value = "noun")
        /\ (call.word = <<"b", "e", "l", "a">> => ret.value = "adjective")
        /\ (call.word = <<"k", "u", "r", "i">> => ret.value = "verb")
        /\ (call.word = <<"k", "u", "r", "a", "s">> => ret.value = "verb")
        /\ (call.word = <<"r", "a", "p", "i", "d", "e">> => ret.value = "adverb")
        /\ (call.word = <<"k", "i", "o">> => ret.value = "correlative")
        /\ (call.word = <<"k", "a", "j">> => ret.value = "conjunction")
        /\ (call.word = <<"-", "e", "t", "-">> => ret.value = "suffix")

\* the infinitive "kuri" has been classified
C17_Witness ==
    /\ ClassifyReturned
    /\ call.word = <<"k", "u", "r", "i">>
    /\ ret.value = "verb"

\* C18 (as claimed): classify_pos returns preposition for every word of the
\* closed preposition set, conjunction for every word of the closed
\* conjunction set, and bare_adverb for every word of the closed bare-adverb
\* set.
C18_ClosedExceptionSets ==
    ClassifyReturned =>
        /\ (call.word \in PREPOSITIONS => ret.value = "preposition")
        /\ (call.word \in CONJUNCTIONS => ret.value = "conjunction")
        /\ (call.word \in BARE_ADVERBS => ret.value = "bare_adverb")

RECURSIVE WithoutEndings(_)
\* the word without its trailing "j" and "n", taken off one by one
WithoutEndings(w) ==
    IF w = <<>> THEN w
    ELSE IF w[Len(w)] = "j" \/ w[Len(w)] = "n" THEN WithoutEndings(SubSeq(w, 1, Len(w) - 1))
    ELSE w

\* the trimmed, lower-cased word w reaches the suffix rule
ReachesSuffixRule(w) ==
    /\ w # <<>>
    /\ w[1] # "-"
    /\ w[Len(w)] # "-"
    /\ w \notin CORRELATIVE_SPECIAL
    /\ ~is_correlative(w)
    /\ w \notin PERSONAL_PRONOUNS
    /\ w \notin PRONOUNS
    /\ ~(IsDigit(w) \/ w \in NUMERALS \/ MatchesNumeralPattern(w))
    /\ w \notin PREPOSITIONS
    /\ w \notin CONJUNCTIONS
    /\ w \notin BARE_ADVERBS

\* the last n characters of w, or <<>> when w is shorter
LastChars(w, n) == IF Len(w) < n THEN <<>> ELSE SubSeq(w, Len(w) - n + 1, Len(w))

\* C26: for a trimmed, lower-cased word that is non-empty, has no leading or
\* trailing hyphen and is matched by none of the correlative, pronoun, numeral,
\* preposition, conjunction and bare-adverb rules, classify_pos removes every
\* trailing "j" and "n" and returns adverb if the rest ends in "e", else verb
\* if it ends in as/is/os/us/u/i, else adjective if it ends in "a", else noun
\* if it ends in "o", else other (also when nothing is left).
C26_SuffixRule ==
    ClassifyReturned /\ ReachesSuffixRule(Lower(Strip(call.word))) =>
        LET rest == WithoutEndings(Lower(Strip(call.word)))
            last1 == LastChars(rest, 1)
            last2 == LastChars(rest, 2)
        IN  ret.value =
                IF last1 = <<"e">> THEN "adverb"
                ELSE IF \/ last2 \in {<<"a", "s">>, <<"i", "s">>, <<"o", "s">>, <<"u", "s">>}
                        \/ last1 \in {<<"u">>, <<"i">>}
                     THEN "verb"
                ELSE IF last1 = <<"a">> THEN "adjective"
                ELSE IF last1 = <<"o">> THEN "noun"
                ELSE "other"

\* a plural accusative noun lost both endings and was classified by its "o"
C26_Witness ==
    /\ ClassifyReturned
    /\ call.word = <<"b", "i", "r", "d", "o", "j", "n">>
    /\ ReachesSuffixRule(Lower(Strip(call.word)))
    /\ WithoutEndings(call.word) = <<"b", "i", "r", "d", "o">>
    /\ ret.value = "noun"

=============================================================================
